---- MODULE Spec2Model ----
(***************************************************************************)
(* Model of the rule-based extraction engine of cvProcessor.ts             *)
(* (CVProcessorService.performAdvancedExtraction and the functions it      *)
(* calls).                                                                 *)
(*                                                                         *)
(* Text is modelled at character level: a string is a sequence of          *)
(* one-character strings, a document is the sequence of its lines (the     *)
(* result of text.split('\n')).  Characters outside ASCII are written with *)
(* an ASCII name: "e'" is e-acute, "E'" its capital, "e!" e-grave, "E!" its *)
(* capital, "o^" o-circumflex, "u^" u-circumflex ("O^", "U^" the capitals),*)
(* "A!" A-grave and "a!" its small letter, "c," c-cedilla ("C," capital),  *)
(* "en-dash", "em-dash" and "bullet" are the Unicode dashes and the bullet.*)
(* Every regular expression of the source is modelled by an operator that  *)
(* scans the characters the way the expression does.                       *)
(***************************************************************************)
EXTENDS Integers, Sequences, FiniteSets, TLC

VARIABLES
  pc,            \* position of the running operation
  text,          \* the input document: sequence of lines, each a sequence of characters
  now,           \* the calendar year new Date().getFullYear() returns
  language,      \* context.language: LanguageProfile produced by detectLanguage
  sections,      \* context.sections: section name -> [start, end, content]
  lines,         \* context.lines: the trimmed non-empty lines
  personalInfo,  \* result of extractPersonalInfo
  expLines,      \* extractExperienceAdvanced: lines, the lines of the section
  expI,          \* extractExperienceAdvanced: i, the index of the while loop
  experiences,   \* extractExperienceAdvanced: experiences, the entries pushed
  education,     \* result of extractEducationAdvanced
  skills,        \* result of extractSkillsAdvanced
  languages,     \* result of extractLanguagesAdvanced
  certifications, \* result of extractCertificationsAdvanced
  projects,      \* result of extractProjectsAdvanced
  result,        \* the CVExtractionResult being returned
  began,         \* the calendar year in which the running invocation began
  returned,      \* the invocations that have returned: [text, from, to, result]
  order,         \* the order in which performAdvancedExtraction calls the extractors
  aiSummary,     \* processCV: aiSummary, the text of generateAdvancedSummary
  cvs,           \* the table of CV rows: id -> [userId, status, isDefault, ...]
  extractedData, \* the table CVExtractedData: the number of rows of each cvId
  files,         \* the uploaded and temporary files that exist, by process
  procs          \* the requests and processCV runs in flight: id -> locals

ctxVars == <<language, sections, lines>>
expVars == <<expLines, expI, experiences>>
outVars == <<personalInfo, education, skills, result>>
listVars == <<languages, certifications, projects>>
callVars == <<text, began, returned>>
cvVars == <<aiSummary, cvs, extractedData, files, procs>>
vars == <<pc, now, ctxVars, expVars, outVars, listVars, callVars, order, cvVars>>

(***************************************************************************)
(* Bounds of the model.                                                    *)
(***************************************************************************)
MaxDigits == 17    \* longest digit run of a phone line
MaxKw == 10        \* most occurrences of one kind of keyword in a text
MaxSecLines == 4   \* most lines of a document of section headers
MaxExpLines == 3   \* most lines below the header of an experience section
MaxCalls == 3      \* most invocations on one service instance
MaxTicks == 1      \* most changes of the calendar year
MaxBodyLines == 3  \* most lines below the header of a one-section document
MaxSkillLines == 3 \* most lines of a document that repeats skill keywords
MaxNameLines == 3  \* most lines of a document of name lines
MaxYears == 11     \* most years of the one entry of an experience list
MaxPipeLines == 4  \* most lines below the header of a section of pipe and date lines
MaxProjectLines == 3  \* most lines below the header of a section of projects
MaxUploads == 2    \* most uploadCV requests
MaxRuns == 1       \* most uploadCV requests when only their processCV runs are followed
MaxRequests == 2   \* most setDefaultCV and deleteCV requests, and most reprocess requests

\* new Date().getFullYear() when the model starts
ThisYear == 2026

(***************************************************************************)
(* Characters.                                                             *)
(***************************************************************************)
Digit == {"0", "1", "2", "3", "4", "5", "6", "7", "8", "9"}

UpperAscii == {"A", "B", "C", "D", "E", "F", "G", "H", "I", "J", "K", "L", "M",
               "N", "O", "P", "Q", "R", "S", "T", "U", "V", "W", "X", "Y", "Z"}

LowerAscii == {"a", "b", "c", "d", "e", "f", "g", "h", "i", "j", "k", "l", "m",
               "n", "o", "p", "q", "r", "s", "t", "u", "v", "w", "x", "y", "z"}

\* String.prototype.toLowerCase, one character
LowerOf ==
  [A |-> "a", B |-> "b", C |-> "c", D |-> "d", E |-> "e", F |-> "f", G |-> "g",
   H |-> "h", I |-> "i", J |-> "j", K |-> "k", L |-> "l", M |-> "m", N |-> "n",
   O |-> "o", P |-> "p", Q |-> "q", R |-> "r", S |-> "s", T |-> "t", U |-> "u",
   V |-> "v", W |-> "w", X |-> "x", Y |-> "y", Z |-> "z"]
  @@ ("E'" :> "e'") @@ ("E!" :> "e!") @@ ("A!" :> "a!") @@ ("O^" :> "o^")
  @@ ("U^" :> "u^") @@ ("C," :> "c,")

ToLowerChar(c) == IF c \in DOMAIN LowerOf THEN LowerOf[c] ELSE c

\* String.prototype.toUpperCase, one character
ToUpperChar(c) ==
  IF \E u \in DOMAIN LowerOf : LowerOf[u] = c
  THEN CHOOSE u \in DOMAIN LowerOf : LowerOf[u] = c
  ELSE c

\* [a-zA-Z] and \w as sets
AsciiLetters == UpperAscii \cup LowerAscii
WordChars == Digit \cup AsciiLetters \cup {"_"}

\* \d, \w and \s of a JavaScript regular expression without the u flag
IsDigit(c) == c \in Digit
IsWordChar(c) == c \in Digit \cup UpperAscii \cup LowerAscii \cup {"_"}
IsSpace(c) == c \in {" ", "\n", "\t"}

(***************************************************************************)
(* Strings as sequences of characters.                                     *)
(***************************************************************************)
Max(S) == CHOOSE x \in S : \A y \in S : y <= x
Min(S) == CHOOSE x \in S : \A y \in S : x <= y

ToLowerCase(s) == [k \in 1..Len(s) |-> ToLowerChar(s[k])]
ToUpperCase(s) == [k \in 1..Len(s) |-> ToUpperChar(s[k])]

\* the position after the longest run of characters of cs that starts at p
RECURSIVE SkipChars(_, _, _)
SkipChars(s, p, cs) ==
  IF p >= 1 /\ p <= Len(s) /\ s[p] \in cs THEN SkipChars(s, p + 1, cs) ELSE p

\* s.length of the digit run that starts at position p
RECURSIVE DigitRun(_, _)
DigitRun(s, p) ==
  IF p <= Len(s) /\ IsDigit(s[p]) THEN 1 + DigitRun(s, p + 1) ELSE 0

\* w occurs in s at position p, compared exactly
MatchAt(s, p, w) ==
  /\ p >= 1
  /\ p + Len(w) - 1 <= Len(s)
  /\ \A k \in 1..Len(w) : s[p + k - 1] = w[k]

\* w occurs in s at position p, ignoring case (the i flag)
MatchAtCI(s, p, w) ==
  /\ p >= 1
  /\ p + Len(w) - 1 <= Len(s)
  /\ \A k \in 1..Len(w) : ToLowerChar(s[p + k - 1]) = ToLowerChar(w[k])

\* \b at position p: between s[p-1] and s[p] exactly one is a word character
WordBoundary(s, p) ==
  (p > 1 /\ p - 1 <= Len(s) /\ IsWordChar(s[p - 1]))
    # (p >= 1 /\ p <= Len(s) /\ IsWordChar(s[p]))

\* String.prototype.trim
RECURSIVE TrimLeft(_)
TrimLeft(s) == IF s # <<>> /\ IsSpace(Head(s)) THEN TrimLeft(Tail(s)) ELSE s

RECURSIVE TrimRight(_)
TrimRight(s) ==
  IF s # <<>> /\ IsSpace(s[Len(s)]) THEN TrimRight(SubSeq(s, 1, Len(s) - 1)) ELSE s

Trim(s) == TrimRight(TrimLeft(s))

\* lines.join('\n')
RECURSIVE Join(_)
Join(ls) ==
  IF ls = <<>> THEN <<>>
  ELSE IF Len(ls) = 1 THEN ls[1]
  ELSE ls[1] \o <<"\n">> \o Join(Tail(ls))

\* s.replace(/[...]/g, ''): s without the characters of the set cs
RemoveChars(s, cs) == SelectSeq(s, LAMBDA c : c \notin cs)

\* the decimal digits of n, n.toString() for n >= 0
RECURSIVE NatToStr(_)
NatToStr(n) ==
  LET d == <<"0", "1", "2", "3", "4", "5", "6", "7", "8", "9">>[(n % 10) + 1]
  IN IF n < 10 THEN <<d>> ELSE NatToStr(n \div 10) \o <<d>>

\* text.split('\n').map(l => l.trim()).filter(l => l.length > 0)
TrimmedLines(t) == SelectSeq([k \in 1..Len(t) |-> Trim(t[k])], LAMBDA l : l # <<>>)

(***************************************************************************)
(* extractPersonalInfo: phone.                                             *)
(***************************************************************************)
\* (?!\d*[-]\d{4}) fails at position e: the digits that follow end in -NNNN
PhoneLookaheadHit(s, e) ==
  LET r == DigitRun(s, e)
  IN /\ e + r <= Len(s)
     /\ s[e + r] = "-"
     /\ DigitRun(s, e + r + 1) >= 4

\* \d{10,15}(?!\d*[-]\d{4}) tried at position c: the number of digits a greedy
\* match takes, 0 if it fails
PhoneDigitsAt(s, c) ==
  LET r == DigitRun(s, c)
      ks == {k \in 10..15 : k <= r /\ ~PhoneLookaheadHit(s, c + k)}
  IN IF ks = {} THEN 0 ELSE Max(ks)

\* (\+?\d{10,15})(?!...) tried at position c: the capture, <<>> if it fails
PhoneCaptureAt(s, c) ==
  IF c > Len(s) THEN <<>>
  ELSE IF s[c] = "+"
    THEN IF PhoneDigitsAt(s, c + 1) > 0
         THEN SubSeq(s, c, c + PhoneDigitsAt(s, c + 1))
         ELSE <<>>
  ELSE IF PhoneDigitsAt(s, c) > 0
    THEN SubSeq(s, c, c + PhoneDigitsAt(s, c) - 1)
  ELSE <<>>

\* fullText.match(phonePattern)[1]: group 1 of the leftmost match, <<>> when
\* there is no match.  The optional label and [\s:]* precede the group and
\* hold no '+' or digit, so the leftmost match is the one whose group starts
\* leftmost.
phonePatternGroup(s) ==
  LET cs == {c \in 1..Len(s) : PhoneCaptureAt(s, c) # <<>>}
  IN IF cs = {} THEN <<>> ELSE PhoneCaptureAt(s, Min(cs))

\* phoneMatch[1].replace(/[\s.\-()]/g, '').trim(), emptied when its length is
\* outside 10..15
cleanPhone(s) ==
  LET m == phonePatternGroup(s)
      cleaned == Trim(RemoveChars(m, {" ", "\n", "\t", ".", "-", "(", ")"}))
  IN IF m = <<>> THEN <<>>
     ELSE IF Len(cleaned) < 10 \/ Len(cleaned) > 15 THEN <<>>
     ELSE cleaned

(***************************************************************************)
(* detectLanguage.                                                         *)
(***************************************************************************)
frenchKeywords ==
  << <<"e","x","p","e'","r","i","e","n","c","e">>,
     <<"e'","d","u","c","a","t","i","o","n">>,
     <<"f","o","r","m","a","t","i","o","n">>,
     <<"c","o","m","p","e'","t","e","n","c","e","s">>,
     <<"c","o","m","p","e","t","e","n","c","e","s">>,
     <<"l","a","n","g","u","e","s">>,
     <<"c","e","r","t","i","f","i","c","a","t","i","o","n","s">>,
     <<"p","r","o","j","e","t","s">>,
     <<"p","r","o","f","e","s","s","i","o","n","n","e","l">>,
     <<"d","e'","v","e","l","o","p","p","e","u","r">>,
     <<"i","n","g","e'","n","i","e","u","r">>,
     <<"u","n","i","v","e","r","s","i","t","e'">>,
     <<"e'","c","o","l","e">>,
     <<"d","i","p","l","o^","m","e">>,
     <<"l","i","c","e","n","c","e">>,
     <<"m","a","s","t","e","r">>,
     <<"s","t","a","g","e">>,
     <<"m","i","s","s","i","o","n">>,
     <<"r","e'","a","l","i","s","a","t","i","o","n">>,
     <<"r","e","s","p","o","n","s","a","b","i","l","i","t","e'","s">>,
     <<"p","o","s","t","e">> >>

englishKeywords ==
  << <<"e","x","p","e","r","i","e","n","c","e">>,
     <<"e","d","u","c","a","t","i","o","n">>,
     <<"s","k","i","l","l","s">>,
     <<"l","a","n","g","u","a","g","e","s">>,
     <<"c","e","r","t","i","f","i","c","a","t","i","o","n","s">>,
     <<"p","r","o","j","e","c","t","s">>,
     <<"p","r","o","f","e","s","s","i","o","n","a","l">>,
     <<"d","e","v","e","l","o","p","e","r">>,
     <<"e","n","g","i","n","e","e","r">>,
     <<"u","n","i","v","e","r","s","i","t","y">>,
     <<"s","c","h","o","o","l">>,
     <<"d","e","g","r","e","e">>,
     <<"b","a","c","h","e","l","o","r">>,
     <<"m","a","s","t","e","r">>,
     <<"i","n","t","e","r","n","s","h","i","p">>,
     <<"p","o","s","i","t","i","o","n">>,
     <<"r","e","s","p","o","n","s","i","b","i","l","i","t","i","e","s">>,
     <<"a","c","h","i","e","v","e","m","e","n","t","s">>,
     <<"r","o","l","e">> >>

\* \bkw\b matches in s at position p (flag i)
WordAt(s, p, kw) ==
  /\ MatchAtCI(s, p, kw)
  /\ WordBoundary(s, p)
  /\ WordBoundary(s, p + Len(kw))

\* textLower.match(new RegExp(`\\b${kw}\\b`, 'gi')).length on one line: the
\* matches are taken left to right and do not overlap
RECURSIVE CountWordFrom(_, _, _)
CountWordFrom(s, kw, p) ==
  IF p + Len(kw) - 1 > Len(s) THEN 0
  ELSE IF WordAt(s, p, kw) THEN 1 + CountWordFrom(s, kw, p + Len(kw))
  ELSE CountWordFrom(s, kw, p + 1)

\* the matches of \bkw\b in the whole text; no keyword holds a line break and
\* the line break is not a word character, so the lines count separately
RECURSIVE CountWordInText(_, _)
CountWordInText(t, kw) ==
  IF t = <<>> THEN 0
  ELSE CountWordFrom(ToLowerCase(Head(t)), kw, 1) + CountWordInText(Tail(t), kw)

RECURSIVE KeywordScore(_, _)
KeywordScore(t, kws) ==
  IF kws = <<>> THEN 0
  ELSE CountWordInText(t, Head(kws)) + KeywordScore(t, Tail(kws))

\* Math.max(frenchScore, englishScore) / total, or 0.5: kept as the fraction
\* <<numerator, denominator>> in lowest terms only for the constant 1/2
languageConfidence(frenchScore, englishScore) ==
  LET total == frenchScore + englishScore
  IN IF total > 0
     THEN <<IF frenchScore >= englishScore THEN frenchScore ELSE englishScore, total>>
     ELSE <<1, 2>>

\* the comparisons written with >= instead of >
languageCodeNotStrict(frenchScore, englishScore) ==
  IF 2 * frenchScore >= 3 * englishScore THEN "fr"
  ELSE IF 2 * englishScore >= 3 * frenchScore THEN "en"
  ELSE "mixed"

\* the final else left out, so that the initial value 'en' of code survives
languageCodeNoElse(frenchScore, englishScore) ==
  IF 2 * frenchScore > 3 * englishScore THEN "fr"
  ELSE IF 2 * englishScore > 3 * frenchScore THEN "en"
  ELSE IF frenchScore + englishScore = 0 THEN "en"
  ELSE "mixed"

\* the if / else if / else that sets code; x > y * 1.5 is 2x > 3y
languageCode(frenchScore, englishScore) ==
  IF 2 * frenchScore > 3 * englishScore THEN "fr"
  ELSE IF 2 * englishScore > 3 * frenchScore THEN "en"
  ELSE "mixed"

detectLanguage(t) ==
  LET frenchScore == KeywordScore(t, frenchKeywords)
      englishScore == KeywordScore(t, englishKeywords)
  IN [code |-> languageCode(frenchScore, englishScore),
      confidence |-> languageConfidence(frenchScore, englishScore),
      frenchScore |-> frenchScore,
      englishScore |-> englishScore]

(***************************************************************************)
(* identifySections.                                                       *)
(***************************************************************************)
\* Object.entries(sectionPatterns): the categories in declaration order
SectionNames ==
  <<"experience", "education", "skills", "languages", "certifications",
    "projects", "summary">>

\* sectionPatterns when language.code === 'fr'
sectionPatternsFrench ==
  [experience |->
      {<<"E","X","P","E'","R","I","E","N","C","E">>,
       <<"E","X","P","E","R","I","E","N","C","E"," ","P","R","O","F","E","S","S","I","O","N","N","E","L","L","E">>,
       <<"P","A","R","C","O","U","R","S"," ","P","R","O","F","E","S","S","I","O","N","N","E","L">>},
   education |->
      {<<"F","O","R","M","A","T","I","O","N">>,
       <<"E'","D","U","C","A","T","I","O","N">>,
       <<"E'","T","U","D","E","S">>,
       <<"P","A","R","C","O","U","R","S"," ","A","C","A","D","E'","M","I","Q","U","E">>},
   skills |->
      {<<"C","O","M","P","E'","T","E","N","C","E","S">>,
       <<"C","O","M","P","E","T","E","N","C","E","S">>,
       <<"S","A","V","O","I","R","-","F","A","I","R","E">>},
   languages |->
      {<<"L","A","N","G","U","E","S">>},
   certifications |->
      {<<"C","E","R","T","I","F","I","C","A","T","I","O","N","S">>,
       <<"C","E","R","T","I","F","I","C","A","T","S">>},
   projects |->
      {<<"P","R","O","J","E","T","S">>,
       <<"R","E'","A","L","I","S","A","T","I","O","N","S">>},
   summary |->
      {<<"R","E'","S","U","M","E'">>,
       <<"P","R","O","F","I","L">>,
       <<"A!"," ","P","R","O","P","O","S">>}]

\* sectionPatterns when language.code !== 'fr'
sectionPatternsEnglish ==
  [experience |->
      {<<"E","X","P","E","R","I","E","N","C","E">>,
       <<"P","R","O","F","E","S","S","I","O","N","A","L"," ","E","X","P","E","R","I","E","N","C","E">>,
       <<"W","O","R","K"," ","H","I","S","T","O","R","Y">>,
       <<"E","M","P","L","O","Y","M","E","N","T">>},
   education |->
      {<<"E","D","U","C","A","T","I","O","N">>,
       <<"A","C","A","D","E","M","I","C"," ","B","A","C","K","G","R","O","U","N","D">>,
       <<"Q","U","A","L","I","F","I","C","A","T","I","O","N","S">>},
   skills |->
      {<<"S","K","I","L","L","S">>,
       <<"C","O","M","P","E","T","E","N","C","I","E","S">>,
       <<"T","E","C","H","N","I","C","A","L"," ","S","K","I","L","L","S">>,
       <<"E","X","P","E","R","T","I","S","E">>},
   languages |->
      {<<"L","A","N","G","U","A","G","E","S">>},
   certifications |->
      {<<"C","E","R","T","I","F","I","C","A","T","I","O","N","S">>,
       <<"C","E","R","T","I","F","I","C","A","T","E","S">>,
       <<"L","I","C","E","N","S","E","S">>},
   projects |->
      {<<"P","R","O","J","E","C","T","S">>,
       <<"P","O","R","T","F","O","L","I","O">>,
       <<"K","E","Y"," ","P","R","O","J","E","C","T","S">>},
   summary |->
      {<<"S","U","M","M","A","R","Y">>,
       <<"P","R","O","F","I","L","E">>,
       <<"A","B","O","U","T">>,
       <<"O","B","J","E","C","T","I","V","E">>}]
sectionPatterns(code) ==
  IF code = "fr" THEN sectionPatternsFrench ELSE sectionPatternsEnglish

\* s.includes(w), ignoring case
ContainsCI(s, w) == \E p \in 1..Len(s) : MatchAtCI(s, p, w)

\* s.includes(w)
Contains(s, w) == \E p \in 1..Len(s) : MatchAt(s, p, w)

\* pattern.test(line.trim()) for an alternation of literals with the i flag
PatternTest(alts, line) == \E a \in alts : ContainsCI(Trim(line), a)

\* the inner lines.forEach of one category: its matches in line order
RECURSIVE StartsOfCategory(_, _, _, _)
StartsOfCategory(t, code, name, idx) ==
  IF idx >= Len(t) THEN <<>>
  ELSE (IF PatternTest(sectionPatterns(code)[name], t[idx + 1])
        THEN <<[name |-> name, index |-> idx]>> ELSE <<>>)
       \o StartsOfCategory(t, code, name, idx + 1)

\* the outer Object.entries(...).forEach: sectionStarts before sorting
RECURSIVE CollectSectionStarts(_, _, _)
CollectSectionStarts(t, code, k) ==
  IF k > Len(SectionNames) THEN <<>>
  ELSE StartsOfCategory(t, code, SectionNames[k], 0)
       \o CollectSectionStarts(t, code, k + 1)

\* one insertion of a stable sort: x goes after every element that is not larger
RECURSIVE InsertByIndex(_, _)
InsertByIndex(sorted, x) ==
  IF sorted = <<>> THEN <<x>>
  ELSE IF Head(sorted).index <= x.index
       THEN <<Head(sorted)>> \o InsertByIndex(Tail(sorted), x)
       ELSE <<x>> \o sorted

\* sectionStarts.sort((a, b) => a.index - b.index), which is stable
RECURSIVE SortByIndex(_)
SortByIndex(starts) ==
  IF starts = <<>> THEN <<>>
  ELSE InsertByIndex(SortByIndex(SubSeq(starts, 1, Len(starts) - 1)), starts[Len(starts)])

\* the span the forEach gives to the idx-th sorted start (idx counts from 1)
SectionSpan(t, sorted, idx) ==
  LET start == sorted[idx].index
      end == IF idx < Len(sorted) THEN sorted[idx + 1].index ELSE Len(t)
  IN [start |-> start, end |-> end, content |-> SubSeq(t, start + 1, end)]

\* sections.set kept the first span of a key
RECURSIVE SetSectionsKeepFirst(_, _, _)
SetSectionsKeepFirst(t, sorted, n) ==
  IF n = 0 THEN <<>>
  ELSE LET before == SetSectionsKeepFirst(t, sorted, n - 1)
           name == sorted[n].name
       IN [k \in (DOMAIN before) \cup {name} |->
             IF k \in DOMAIN before THEN before[k] ELSE SectionSpan(t, sorted, n)]

\* sections.set(name, span) for the first n sorted starts, in order: a later
\* set of the same key replaces the earlier one
RECURSIVE SetSections(_, _, _)
SetSections(t, sorted, n) ==
  IF n = 0 THEN <<>>
  ELSE LET before == SetSections(t, sorted, n - 1)
           name == sorted[n].name
       IN [k \in (DOMAIN before) \cup {name} |->
             IF k = name THEN SectionSpan(t, sorted, n) ELSE before[k]]

identifySections(t, lang) ==
  LET sorted == SortByIndex(CollectSectionStarts(t, lang.code, 1))
  IN SetSections(t, sorted, Len(sorted))

NoLanguage == [code |-> "none", confidence |-> <<0, 1>>, frenchScore |-> 0, englishScore |-> 0]
NoPersonalInfo ==
  [full_name |-> <<>>, position |-> <<>>, email |-> <<>>, phone |-> <<>>,
   location |-> <<>>, linkedin |-> <<>>, age |-> "null", gender |-> "null"]

(***************************************************************************)
(* extractExperienceAdvanced: the date patterns.                           *)
(* A match is [matched, g], g the four capture groups, <<>> for a group    *)
(* that did not take part (undefined).                                     *)
(***************************************************************************)
NoMatch == [matched |-> FALSE, g |-> << <<>>, <<>>, <<>>, <<>> >>]
Match(g1, g2, g3, g4) == [matched |-> TRUE, g |-> <<g1, g2, g3, g4>>]

IsDash(c) == c \in {"-", "en-dash", "em-dash"}

\* [a-z] under the i flag
IsAsciiLetter(c) == c \in UpperAscii \cup LowerAscii

\* the position after \s* started at p
RECURSIVE SkipSpaces(_, _)
SkipSpaces(s, p) ==
  IF p <= Len(s) /\ IsSpace(s[p]) THEN SkipSpaces(s, p + 1) ELSE p

\* the position after [a-z]* started at p
RECURSIVE SkipLetters(_, _)
SkipLetters(s, p) ==
  IF p <= Len(s) /\ IsAsciiLetter(s[p]) THEN SkipLetters(s, p + 1) ELSE p

\* \d{n} matches at p
DigitsAt(s, p, n) == \A k \in 0..(n - 1) : p + k <= Len(s) /\ IsDigit(s[p + k])

\* \s*[-–—]\s* started at p: the position after it, 0 if it fails
DashAt(s, p) ==
  LET q == SkipSpaces(s, p)
  IN IF q <= Len(s) /\ IsDash(s[q]) THEN SkipSpaces(s, q + 1) ELSE 0

\* an alternation of literals tried at p in order: the length of the first
\* alternative that matches and is followed by \b, 0 if none
RECURSIVE WordTokenAt(_, _, _)
WordTokenAt(s, p, alts) ==
  IF alts = <<>> THEN 0
  ELSE IF MatchAtCI(s, p, Head(alts)) /\ WordBoundary(s, p + Len(Head(alts)))
       THEN Len(Head(alts))
       ELSE WordTokenAt(s, p, Tail(alts))

openEndWords ==
  << <<"p","r","e","s","e","n","t">>,
     <<"c","u","r","r","e","n","t">>,
     <<"a","u","j","o","u","r","d","'","h","u","i">>,
     <<"a","c","t","u","e","l">>,
     <<"n","o","w">> >>

\* the end words of the third pattern: the same without "now"
openEndWordsMonth == SubSeq(openEndWords, 1, 4)

monthNames ==
  << <<"j","a","n">>, <<"f","e","b">>, <<"m","a","r">>, <<"a","p","r">>,
     <<"m","a","y">>, <<"j","u","n">>, <<"j","u","l">>, <<"a","u","g">>,
     <<"s","e","p">>, <<"o","c","t">>, <<"n","o","v">>, <<"d","e","c">>,
     <<"j","a","n","v">>, <<"f","e'","v","r">>, <<"m","a","r","s">>,
     <<"a","v","r">>, <<"m","a","i">>, <<"j","u","i","n">>,
     <<"j","u","i","l">>, <<"a","o","u^","t">>, <<"s","e","p","t">>,
     <<"o","c","t">>, <<"n","o","v">>, <<"d","e'","c">> >>

\* datePatterns[0] tried at p: \b(\d{2})\/(\d{4})\s*[-–—]\s*
\*   (?:(\d{2})\/(\d{4})|(?:present|current|aujourd'hui|actuel|now))\b
MonthSlashAt(s, p) ==
  IF ~(WordBoundary(s, p) /\ DigitsAt(s, p, 2) /\ MatchAt(s, p + 2, <<"/">>)
       /\ DigitsAt(s, p + 3, 4))
  THEN NoMatch
  ELSE LET q == DashAt(s, p + 7)
           g1 == SubSeq(s, p, p + 1)
           g2 == SubSeq(s, p + 3, p + 6)
       IN IF q = 0 THEN NoMatch
          ELSE IF DigitsAt(s, q, 2) /\ MatchAt(s, q + 2, <<"/">>)
                  /\ DigitsAt(s, q + 3, 4) /\ WordBoundary(s, q + 7)
            THEN Match(g1, g2, SubSeq(s, q, q + 1), SubSeq(s, q + 3, q + 6))
          ELSE IF WordTokenAt(s, q, openEndWords) > 0
            THEN Match(g1, g2, <<>>, <<>>)
          ELSE NoMatch

\* datePatterns[1] tried at p: \b(\d{4})\s*[-–—]\s*
\*   (?:(\d{4})|(?:present|current|aujourd'hui|actuel|now))\b
YearRangeAt(s, p) ==
  IF ~(WordBoundary(s, p) /\ DigitsAt(s, p, 4)) THEN NoMatch
  ELSE LET q == DashAt(s, p + 4)
           g1 == SubSeq(s, p, p + 3)
       IN IF q = 0 THEN NoMatch
          ELSE IF DigitsAt(s, q, 4) /\ WordBoundary(s, q + 4)
            THEN Match(g1, SubSeq(s, q, q + 3), <<>>, <<>>)
          ELSE IF WordTokenAt(s, q, openEndWords) > 0
            THEN Match(g1, <<>>, <<>>, <<>>)
          ELSE NoMatch

\* (month)[a-z]*\.?\s+ tried at p with the month name a: the position after
\* it, 0 if it fails
MonthWordAt(s, p, a) ==
  IF ~MatchAtCI(s, p, a) THEN 0
  ELSE LET q1 == SkipLetters(s, p + Len(a))
           q2 == IF q1 <= Len(s) /\ s[q1] = "." THEN q1 + 1 ELSE q1
           q3 == SkipSpaces(s, q2)
       IN IF q3 > q2 THEN q3 ELSE 0

\* (\d{4}|present|current|aujourd'hui|actuel)\b tried at p: the text of the
\* group, <<>> if it fails
MonthEndAt(s, p) ==
  IF DigitsAt(s, p, 4) /\ WordBoundary(s, p + 4) THEN SubSeq(s, p, p + 3)
  ELSE IF WordTokenAt(s, p, openEndWordsMonth) > 0
    THEN SubSeq(s, p, p + WordTokenAt(s, p, openEndWordsMonth) - 1)
  ELSE <<>>

\* the optional second month tried at p with the names from the k-th on, then
\* the end group: <<g3, g4>>, g4 = <<>> if all fail
RECURSIVE MonthTailAt(_, _, _)
MonthTailAt(s, p, k) ==
  IF k > Len(monthNames) THEN << <<>>, MonthEndAt(s, p) >>
  ELSE LET q == MonthWordAt(s, p, monthNames[k])
       IN IF q > 0 /\ MonthEndAt(s, q) # <<>>
          THEN << SubSeq(s, p, p + Len(monthNames[k]) - 1), MonthEndAt(s, q) >>
          ELSE MonthTailAt(s, p, k + 1)

\* datePatterns[2] tried at p with the month names from the k-th on:
\* \b(jan|...|déc)[a-z]*\.?\s+(\d{4})\s*[-–—]\s*
\*   (?:(jan|...|déc)[a-z]*\.?\s+)?(\d{4}|present|current|aujourd'hui|actuel)\b
RECURSIVE MonthRangeFrom(_, _, _)
MonthRangeFrom(s, p, k) ==
  IF k > Len(monthNames) \/ ~WordBoundary(s, p) THEN NoMatch
  ELSE LET q == MonthWordAt(s, p, monthNames[k])
           d == IF q > 0 /\ DigitsAt(s, q, 4) THEN DashAt(s, q + 4) ELSE 0
           tl == IF d > 0 THEN MonthTailAt(s, d, 1) ELSE << <<>>, <<>> >>
       IN IF d > 0 /\ tl[2] # <<>>
          THEN Match(SubSeq(s, p, p + Len(monthNames[k]) - 1),
                     SubSeq(s, q, q + 3), tl[1], tl[2])
          ELSE MonthRangeFrom(s, p, k + 1)

\* datePatterns[k] tried at position p (k counts from 0)
DatePatternAt(k, s, p) ==
  IF k = 0 THEN MonthSlashAt(s, p)
  ELSE IF k = 1 THEN YearRangeAt(s, p)
  ELSE MonthRangeFrom(s, p, 1)

\* pattern.lastIndex = 0; pattern.exec(line): the leftmost match
RECURSIVE DateExecFrom(_, _, _)
DateExecFrom(k, s, p) ==
  IF p > Len(s) THEN NoMatch
  ELSE IF DatePatternAt(k, s, p).matched THEN DatePatternAt(k, s, p)
  ELSE DateExecFrom(k, s, p + 1)

DateExec(k, s) == DateExecFrom(k, s, 1)

(***************************************************************************)
(* extractExperienceAdvanced: one entry.                                   *)
(***************************************************************************)
\* the value of a string of digits
RECURSIVE DigitsValue(_)
DigitsValue(s) ==
  IF s = <<>> THEN 0
  ELSE 10 * DigitsValue(SubSeq(s, 1, Len(s) - 1))
       + (CHOOSE d \in 0..9 : NatToStr(d) = <<s[Len(s)]>>)

\* parseInt(s): [nan, n]; leading white space, then the longest prefix of digits
parseInt(s) ==
  LET t == TrimLeft(s)
      r == DigitRun(t, 1)
  IN IF r = 0 THEN [nan |-> TRUE, n |-> 0]
     ELSE [nan |-> FALSE, n |-> DigitsValue(SubSeq(t, 1, r))]

\* n.toString() for an integer n
IntToStr(n) == IF n < 0 THEN <<"-">> \o NatToStr(0 - n) ELSE NatToStr(n)

PresentWord == <<"P","r","e","s","e","n","t">>

\* startYear and endYear of a match whose groups 1 and 2 are set; endYear is
\* [isNumber, n, s]: a number n or a string s
DateYears(m) ==
  LET g == m.g
      str(x) == [isNumber |-> FALSE, n |-> 0, s |-> x]
      num(x) == [isNumber |-> TRUE, n |-> parseInt(x).n, s |-> <<>>]
      \* dateMatch[4] || 'Present', parsed when it is four digits
      fromGroup4 == IF g[4] = <<>> THEN str(PresentWord)
                    ELSE IF Len(g[4]) = 4 /\ DigitsAt(g[4], 1, 4) THEN num(g[4])
                    ELSE str(g[4])
  IN IF Len(g[1]) = 4 /\ DigitsAt(g[1], 1, 4)
     THEN [startYear |-> parseInt(g[1]).n,
           endYear |-> IF \E k \in 1..4 : ContainsCI(g[2], openEndWords[k])
                       THEN str(PresentWord) ELSE num(g[2])]
     ELSE [startYear |-> parseInt(g[2]).n, endYear |-> fromGroup4]

\* s.split('|')
RECURSIVE Split(_, _)
Split(s, sep) ==
  LET cut == {p \in 1..Len(s) : s[p] = sep}
  IN IF cut = {} THEN <<s>>
     ELSE <<SubSeq(s, 1, Min(cut) - 1)>> \o Split(SubSeq(s, Min(cut) + 1, Len(s)), sep)

\* /^[-•]/
BulletStart(s) == s # <<>> /\ s[1] \in {"-", "bullet"}

\* s.replace(/^[-•]\s*/, '')
StripBullet(s) ==
  IF BulletStart(s) THEN SubSeq(s, SkipSpaces(s, 2), Len(s)) ELSE s

\* /Technologies|Utilisees|Conception|Développement/i
backwardDescriptionWords ==
  { <<"T","e","c","h","n","o","l","o","g","i","e","s">>,
    <<"U","t","i","l","i","s","e","e","s">>,
    <<"C","o","n","c","e","p","t","i","o","n">>,
    <<"D","e'","v","e","l","o","p","p","e","m","e","n","t">> }

\* /Technologies|Conception|Développement|Création|Intégration|Implémentation/i
forwardDescriptionWords ==
  { <<"T","e","c","h","n","o","l","o","g","i","e","s">>,
    <<"C","o","n","c","e","p","t","i","o","n">>,
    <<"D","e'","v","e","l","o","p","p","e","m","e","n","t">>,
    <<"C","r","e'","a","t","i","o","n">>,
    <<"I","n","t","e'","g","r","a","t","i","o","n">>,
    <<"I","m","p","l","e'","m","e","n","t","a","t","i","o","n">> }

\* /^(?:EDUCATION|PROJET|CERTIFICATION|COMPETENCES)/i
nextSectionWords ==
  { <<"E","D","U","C","A","T","I","O","N">>,
    <<"P","R","O","J","E","T">>,
    <<"C","E","R","T","I","F","I","C","A","T","I","O","N">>,
    <<"C","O","M","P","E","T","E","N","C","E","S">> }

\* /^(?:EXPERIENCE|EXPÉRIENCE|PROFESSIONAL|PARCOURS)/i
experienceHeaderWords ==
  { <<"E","X","P","E","R","I","E","N","C","E">>,
    <<"E","X","P","E'","R","I","E","N","C","E">>,
    <<"P","R","O","F","E","S","S","I","O","N","A","L">>,
    <<"P","A","R","C","O","U","R","S">> }

\* /\d{4}/
HasFourDigits(s) == \E p \in 1..Len(s) : DigitsAt(s, p, 4)

\* /\d{4}\s*[-–—]\s*\d{4}/
HasClosedRange(s) ==
  \E p \in 1..Len(s) :
    DigitsAt(s, p, 4) /\ DashAt(s, p + 4) > 0 /\ DigitsAt(s, DashAt(s, p + 4), 4)

\* the characters of À-ÿ that the model's texts use
Latin1Letters == {"e'", "E'", "e!", "E!", "o^", "O^", "u^", "U^", "A!", "a!"}

\* [A-Za-zÀ-ÿ\s]
IsCompanyChar(c) == IsAsciiLetter(c) \/ c \in Latin1Letters \/ IsSpace(c)

\* /\bl\s+([A-Z][A-Za-zÀ-ÿ\s]+?)(?:\s*$)/ tried at p: group 1, <<>> if it fails.
\* The lazy group stops at the first length after which only white space is left.
CompanyAt(s, p) ==
  LET c == SkipSpaces(s, p + 1)
      ks == {k \in 1..(Len(s) - c) :
               /\ \A x \in (c + 1)..(c + k) : IsCompanyChar(s[x])
               /\ \A x \in (c + k + 1)..Len(s) : IsSpace(s[x])}
  IN IF s[p] = "l" /\ WordBoundary(s, p) /\ c > p + 1 /\ c <= Len(s)
        /\ s[c] \in UpperAscii /\ ks # {}
     THEN SubSeq(s, c, c + Min(ks))
     ELSE <<>>

\* prevLine.match(companyPattern)[1], <<>> without a match
CompanyMatch(s) ==
  LET ps == {p \in 1..Len(s) : CompanyAt(s, p) # <<>>}
  IN IF ps = {} THEN <<>> ELSE CompanyAt(s, Min(ps))

\* parts[k] || '' of the trimmed parts of a pipe-separated line (k from 0)
PipePart(s, k) ==
  LET parts == Split(s, "|")
  IN IF k + 1 <= Len(parts) THEN Trim(parts[k + 1]) ELSE <<>>

\* the body of the backward loop for lines j .. i-1 (indices from 0); acc is
\* [position, company, location]
RECURSIVE WalkBack(_, _, _, _)
WalkBack(ls, j, i, acc) ==
  IF j >= i THEN acc
  ELSE LET prevLine == ls[j + 1]
       IN IF BulletStart(prevLine)
             \/ \E w \in backwardDescriptionWords : ContainsCI(prevLine, w)
          THEN WalkBack(ls, j + 1, i, acc)
          ELSE IF Contains(prevLine, <<"|">>)
          THEN [position |-> IF acc.position = <<>> THEN PipePart(prevLine, 0) ELSE acc.position,
                company |-> IF acc.company = <<>> THEN PipePart(prevLine, 1) ELSE acc.company,
                location |-> IF acc.location = <<>> THEN PipePart(prevLine, 2) ELSE acc.location]
          ELSE WalkBack(ls, j + 1, i,
                 [position |-> IF /\ acc.position = <<>>
                                  /\ Len(prevLine) > 5
                                  /\ Len(prevLine) < 150
                                  /\ ~HasFourDigits(prevLine)
                                  /\ \E x \in 1..Len(prevLine) : prevLine[x] \in UpperAscii
                               THEN prevLine ELSE acc.position,
                  company |-> IF CompanyMatch(prevLine) # <<>> /\ acc.company = <<>>
                              THEN Trim(CompanyMatch(prevLine)) ELSE acc.company,
                  location |-> acc.location])

\* the body of the forward loop for lines j .. hi-1 (indices from 0)
RECURSIVE WalkForward(_, _, _, _, _)
WalkForward(ls, j, hi, description, descLineCount) ==
  IF j >= hi THEN description
  ELSE LET descLine == ls[j + 1]
           take == BulletStart(descLine)
                   \/ \E w \in forwardDescriptionWords : ContainsCI(descLine, w)
       IN IF HasClosedRange(descLine)
             \/ \E w \in nextSectionWords : MatchAtCI(descLine, 1, w)
          THEN description
          ELSE IF take /\ descLineCount + 1 >= 5
          THEN description \o Trim(StripBullet(descLine)) \o <<" ">>
          ELSE IF take
          THEN WalkForward(ls, j + 1, hi,
                           description \o Trim(StripBullet(descLine)) \o <<" ">>,
                           descLineCount + 1)
          ELSE WalkForward(ls, j + 1, hi, description, descLineCount)

\* the entry pushed for the match m found while the loop index is i
ExperienceEntry(ls, i, m, year) ==
  LET d == DateYears(m)
      ctx == WalkBack(ls, IF i - 5 > 0 THEN i - 5 ELSE 0, i,
                      [position |-> <<>>, company |-> <<>>, location |-> <<>>])
      description == WalkForward(ls, i + 1, IF i + 15 < Len(ls) THEN i + 15 ELSE Len(ls), <<>>, 0)
      years == IF d.endYear.isNumber THEN d.endYear.n - d.startYear
               ELSE year - d.startYear
  IN [position |-> IF ctx.position = <<>>
                   THEN <<"P","o","s","i","t","i","o","n"," ","N","o","t"," ",
                          "S","p","e","c","i","f","i","e","d">>
                   ELSE ctx.position,
      company |-> ctx.company,
      location |-> ctx.location,
      startDate |-> IntToStr(d.startYear),
      endDate |-> IF d.endYear.isNumber THEN IntToStr(d.endYear.n) ELSE d.endYear.s,
      description |-> Trim(description),
      duration |-> IntToStr(years) \o <<" ","y","e","a","r","s">>]

\* the for loop over datePatterns from the k-th pattern on, entered with loop
\* index i: [i, found].  A match without groups 1 and 2 runs "i++; continue",
\* which increments i and goes on with the next pattern on the same line.
RECURSIVE TryDatePatterns(_, _, _, _, _)

\* the body of the for loop for the result m of pattern.exec(line)
OnDateMatch(ls, line, i, k, year, m) ==
  IF ~m.matched THEN TryDatePatterns(ls, line, i, k + 1, year)
  ELSE IF m.g[1] # <<>> /\ m.g[2] # <<>>
  THEN [i |-> i, found |-> <<ExperienceEntry(ls, i, m, year)>>]
  ELSE TryDatePatterns(ls, line, i + 1, k + 1, year)

TryDatePatterns(ls, line, i, k, year) ==
  IF k > 2 THEN [i |-> i, found |-> <<>>]
  ELSE OnDateMatch(ls, line, i, k, year, DateExec(k, line))

\* one iteration of the while loop entered with index i, up to its closing
\* i++: [i, found]
ExperienceIteration(ls, i, year) ==
  IF \E w \in experienceHeaderWords : MatchAtCI(ls[i + 1], 1, w)
  THEN [i |-> i, found |-> <<>>]
  ELSE TryDatePatterns(ls, ls[i + 1], i, 0, year)

\* the iteration had the loop no "i++" after a header line or at the end of
\* its body
WhileIterationStay(ls, i, year) == ExperienceIteration(ls, i, year)

\* one iteration of the while loop entered with index i, "i++" of the header
\* test or of the end of the body included: [i, found]
WhileIteration(ls, i, year) == [ExperienceIteration(ls, i, year) EXCEPT !.i = @ + 1]

\* the entries pushed by the while loop from index i on
RECURSIVE ExperiencesFrom(_, _, _)
ExperiencesFrom(ls, i, year) ==
  IF i >= Len(ls) THEN <<>>
  ELSE WhileIteration(ls, i, year).found
         \o ExperiencesFrom(ls, WhileIteration(ls, i, year).i, year)

\* calculateExperienceYears
RECURSIVE calculateExperienceYears(_, _)
calculateExperienceYears(experience, currentYear) ==
  IF experience = <<>> THEN 0
  ELSE LET exp == Head(experience)
           start == parseInt(exp.startDate)
           end == IF ToLowerCase(exp.endDate) = ToLowerCase(PresentWord)
                  THEN [nan |-> FALSE, n |-> currentYear]
                  ELSE parseInt(exp.endDate)
       IN (IF ~start.nan /\ ~end.nan /\ end.n >= start.n THEN end.n - start.n ELSE 0)
          + calculateExperienceYears(Tail(experience), currentYear)

(***************************************************************************)
(* extractPersonalInfo: email, the text of the phone match, LinkedIn.      *)
(***************************************************************************)
\* emailPattern tried at p: the position after the match, 0 if it fails.
\* /(?<!\d)([a-zA-Z][\w.+-]*@[a-zA-Z0-9][\w.-]*\.[a-zA-Z]{2,})/
emailPatternAt(s, p) ==
  LET q == SkipChars(s, p + 1, WordChars \cup {".", "+", "-"})
      r == SkipChars(s, q + 2, WordChars \cup {".", "-"})
      dots == {k \in (q + 2)..(r - 1) :
                 /\ s[k] = "."
                 /\ k + 2 <= Len(s)
                 /\ s[k + 1] \in AsciiLetters
                 /\ s[k + 2] \in AsciiLetters}
  IN IF /\ (p = 1 \/ ~IsDigit(s[p - 1]))
        /\ s[p] \in AsciiLetters
        /\ q + 1 <= Len(s)
        /\ s[q] = "@"
        /\ s[q + 1] \in Digit \cup AsciiLetters
        /\ dots # {}
     THEN SkipChars(s, Max(dots) + 1, AsciiLetters)
     ELSE 0

\* fullText.match(emailPattern)[0] (group 1 is the whole match), <<>> without
\* a match
emailMatch(s) ==
  LET ps == {p \in 1..Len(s) : emailPatternAt(s, p) > 0}
  IN IF ps = {} THEN <<>>
     ELSE SubSeq(s, Min(ps), emailPatternAt(s, Min(ps)) - 1)

\* (?:Tel|Phone|Mobile|Téléphone|Tél|GSM|Contact)
phoneLabels ==
  {<<"T","e","l">>, <<"P","h","o","n","e">>, <<"M","o","b","i","l","e">>, <<"T","e'","l","e'","p","h","o","n","e">>, <<"T","e'","l">>, <<"G","S","M">>, <<"C","o","n","t","a","c","t">>}

\* fullText.match(phonePattern)[0]: the label, if one ends where the run of
\* [\s:]* before the group begins, that run and the group; <<>> without a match
phoneMatch(s) ==
  LET cs == {c \in 1..Len(s) : PhoneCaptureAt(s, c) # <<>>}
      c == Min(cs)
      b == Min({x \in 1..c : \A y \in x..(c - 1) : s[y] \in {" ", "\n", "\t", ":"}})
      labelled == {p \in 1..b : \E l \in phoneLabels :
                                  p + Len(l) = b /\ MatchAtCI(s, p, l)}
  IN IF cs = {} THEN <<>>
     ELSE SubSeq(s, Min(labelled \cup {b}), c + Len(PhoneCaptureAt(s, c)) - 1)

\* linkedinPattern tried at p: group 1, <<>> if it fails.
\* /(?:linkedin\.com\/in\/|lnkd\.in\/|linkedin:?\s*)([a-zA-Z0-9\-]+)/i
linkedinPatternAt(s, p) ==
  LET handle(q) == SubSeq(s, q, SkipChars(s, q, Digit \cup AsciiLetters \cup {"-"}) - 1)
      colon == IF p + 8 <= Len(s) /\ s[p + 8] = ":" THEN p + 9 ELSE p + 8
  IN IF MatchAtCI(s, p, <<"l","i","n","k","e","d","i","n",".","c","o","m","/","i","n","/">>) /\ handle(p + 16) # <<>>
     THEN handle(p + 16)
     ELSE IF MatchAtCI(s, p, <<"l","n","k","d",".","i","n","/">>) /\ handle(p + 8) # <<>>
     THEN handle(p + 8)
     ELSE IF MatchAtCI(s, p, <<"l","i","n","k","e","d","i","n">>)
     THEN handle(SkipSpaces(s, colon))
     ELSE <<>>

\* `https://linkedin.com/in/${linkedinMatch[1]}` for the leftmost match, else ''
linkedinUrl(s) ==
  LET ps == {p \in 1..Len(s) : linkedinPatternAt(s, p) # <<>>}
  IN IF ps = {} THEN <<>>
     ELSE <<"h","t","t","p","s",":","/","/","l","i","n","k","e","d","i","n",".","c","o","m","/","i","n","/">> \o linkedinPatternAt(s, Min(ps))

(***************************************************************************)
(* extractNameMultiPhase.                                                  *)
(***************************************************************************)
\* [A-ZÀÂÄÆÇÉÈÊËÏÎÔÖŒÙÛÜ] and [a-zàâäæçéèêëïîôöœùûü], the characters the
\* model's texts use
NameUpper == UpperAscii \cup {"E'", "E!", "A!", "O^", "U^"}
NameLower == LowerAscii \cup {"e'", "e!", "a!", "o^", "u^"}

\* s.split(/\s+/)
RECURSIVE SplitSpaces(_)
SplitSpaces(s) ==
  LET ws == {p \in 1..Len(s) : IsSpace(s[p])}
  IN IF ws = {} THEN <<s>>
     ELSE <<SubSeq(s, 1, Min(ws) - 1)>>
          \o SplitSpaces(SubSeq(s, SkipSpaces(s, Min(ws)), Len(s)))

\* words.join(' ')
RECURSIVE JoinSpace(_)
JoinSpace(ws) ==
  IF Len(ws) = 0 THEN <<>>
  ELSE IF Len(ws) = 1 THEN ws[1]
  ELSE ws[1] \o <<" ">> \o JoinSpace(Tail(ws))

\* the alternations of excludePatterns[0], [1], [2], [4] and [8]
excludeWords ==
  [start |-> {<<"C","U","R","R","I","C","U","L","U","M">>, <<"V","I","T","A","E">>, <<"C","V">>, <<"R","E","S","U","M","E">>, <<"R","E'","S","U","M","E'">>},
   title |-> {<<"E","N","G","I","N","E","E","R">>, <<"M","A","N","A","G","E","R">>, <<"D","E","V","E","L","O","P","E","R">>, <<"D","E'","V","E","L","O","P","P","E","U","R">>, <<"D","I","R","E","C","T","O","R">>,
              <<"D","E","S","I","G","N","E","R">>, <<"A","R","C","H","I","T","E","C","T">>, <<"I","N","G","E'","N","I","E","U","R">>, <<"A","N","A","L","Y","S","T">>, <<"C","O","N","S","U","L","T","A","N","T">>,
              <<"S","P","E","C","I","A","L","I","S","T">>, <<"C","O","O","R","D","I","N","A","T","O","R">>, <<"T","E","C","H","N","I","C","I","A","N">>, <<"T","E","C","H","N","I","C","I","E","N">>, <<"O","F","F","I","C","E","R">>,
              <<"E","X","E","C","U","T","I","V","E">>, <<"S","U","P","E","R","V","I","S","O","R">>, <<"A","S","S","I","S","T","A","N","T">>, <<"I","N","T","E","R","N">>, <<"L","E","A","D">>, <<"C","H","I","E","F">>,
              <<"H","E","A","D">>, <<"F","U","L","L"," ","S","T","A","C","K">>, <<"F","R","O","N","T","E","N","D">>, <<"B","A","C","K","E","N","D">>, <<"G","E'","N","I","E">>,
              <<"I","N","F","O","R","M","A","T","I","Q","U","E">>, <<"F","A","B","R","I","C","A","T","I","O","N">>, <<"M","E","C","A","N","I","Q","U","E">>, <<"M","E'","C","A","N","I","Q","U","E">>},
   contact |-> {<<"@">>, <<"h","t","t","p">>, <<"w","w","w",".">>, <<"g","i","t","h","u","b",".","c","o","m">>, <<"l","i","n","k","e","d","i","n">>},
   section |-> {<<"E","X","P","E","R","I","E","N","C","E">>, <<"E","D","U","C","A","T","I","O","N">>, <<"S","K","I","L","L","S">>, <<"F","O","R","M","A","T","I","O","N">>, <<"C","O","M","P","E'","T","E","N","C","E","S">>,
                <<"C","O","M","P","E","T","E","N","C","E","S">>, <<"P","R","O","J","E","T">>, <<"P","R","O","J","E","C","T">>, <<"C","E","R","T","I","F","I","C","A","T","I","O","N">>},
   tech |-> {<<"T","e","c","h","n","o","l","o","g","i","e","s">>, <<"U","t","i","l","i","s","e","e","s">>, <<"S","p","r","i","n","g">>, <<"B","o","o","t">>, <<"S","e","c","u","r","i","t","y">>, <<"M","y","S","Q","L">>,
             <<"F","r","a","m","e","w","o","r","k">>, <<"J","P","A">>, <<"R","e","p","o","s","i","t","o","r","y">>}]

\* excludePatterns.some(p => p.test(line)) for a non-empty line
IsExcluded(line) ==
  \/ \E w \in excludeWords.start : MatchAtCI(line, 1, w)
  \/ \E w \in excludeWords.title : \E p \in 1..Len(line) : WordAt(line, p, w)
  \/ \E w \in excludeWords.contact : ContainsCI(line, w)
  \/ IsDigit(line[1])
  \/ \E w \in excludeWords.section : ContainsCI(line, w)
  \/ HasClosedRange(line)
  \/ ToLowerCase(Trim(line)) = <<"f","e","s">>
  \/ (Len(line) >= 20 /\ \A k \in 1..Len(line) : line[k] \in UpperAscii \/ IsSpace(line[k]))
  \/ \E w \in excludeWords.tech : ContainsCI(line, w)

\* /^([A-Z...]\s){2,}[A-Z...]+$/: two or more capitals each followed by one
\* white space, then capitals to the end
SpacedCaps(s) ==
  \E n \in 2..Len(s) :
    /\ 2 * n < Len(s)
    /\ \A k \in 1..n : s[2 * k - 1] \in NameUpper /\ IsSpace(s[2 * k])
    /\ \A x \in (2 * n + 1)..Len(s) : s[x] \in NameUpper

\* /^([A-Z...]+\s){1,3}[A-Z...]+$/: two to four words of capitals, one white
\* space between them
CapsWords(s) ==
  /\ \A p \in 1..Len(s) : s[p] \in NameUpper \/ IsSpace(s[p])
  /\ \A p \in 1..Len(s) :
       IsSpace(s[p]) => p > 1 /\ p < Len(s) /\ ~IsSpace(s[p - 1]) /\ ~IsSpace(s[p + 1])
  /\ Cardinality({p \in 1..Len(s) : IsSpace(s[p])}) \in 1..3

\* word.charAt(0) + word.slice(1).toLowerCase() for each word
TitleCase(ws) ==
  [k \in 1..Len(ws) |->
     IF ws[k] = <<>> THEN <<>>
     ELSE <<ws[k][1]>> \o ToLowerCase(SubSeq(ws[k], 2, Len(ws[k])))]

\* /^([A-Z...][a-z...]+(?:[\s-][A-Z...][a-z...]+){1,3})$/: two to four words,
\* each a capital and then small letters, one white space or hyphen between
StrictTitle(s) ==
  LET sep(p) == IsSpace(s[p]) \/ s[p] = "-"
  IN /\ Cardinality({p \in 1..Len(s) : sep(p)}) \in 1..3
     /\ \A p \in 1..Len(s) :
          IF sep(p) THEN p > 1 /\ p < Len(s) /\ ~sep(p + 1)
          ELSE IF p = 1 \/ sep(p - 1)
          THEN s[p] \in NameUpper /\ p < Len(s) /\ s[p + 1] \in NameLower
          ELSE s[p] \in NameLower

\* Phase 1 on one trimmed line: the name returned, <<>> when the line is passed
Phase1Candidate(line) ==
  IF Len(line) < 5 \/ Len(line) > 100 THEN <<>>
  ELSE IF IsExcluded(line) THEN <<>>
  ELSE IF SpacedCaps(line) THEN Trim(JoinSpace(SplitSpaces(line)))
  ELSE IF /\ CapsWords(line)
          /\ line = ToUpperCase(line)
          /\ Len(SplitSpaces(line)) \in 2..4
          /\ Len(line) \in 8..50
  THEN JoinSpace(TitleCase(SplitSpaces(line)))
  ELSE <<>>

\* Phase 2 on one trimmed line
Phase2Candidate(line) ==
  IF Len(line) < 5 \/ Len(line) > 80 THEN <<>>
  ELSE IF IsExcluded(line) THEN <<>>
  ELSE IF line = ToUpperCase(line) \/ line = ToLowerCase(line) THEN <<>>
  ELSE IF \E p \in 1..Len(line) : line[p] \in {"|", ":", "/"} THEN <<>>
  ELSE IF /\ StrictTitle(line)
          /\ \A p \in 1..Len(line) : ~IsDigit(line[p])
          /\ Len(SplitSpaces(line)) \in 2..4
  THEN line
  ELSE <<>>

\* \b(?:the|a|an|is|are|was|were|le|la|les|un|une|des|et|ou|dans|pour|avec|sur)\b
commonWords ==
  {<<"t","h","e">>, <<"a">>, <<"a","n">>, <<"i","s">>, <<"a","r","e">>, <<"w","a","s">>, <<"w","e","r","e">>, <<"l","e">>, <<"l","a">>, <<"l","e","s">>, <<"u","n">>, <<"u","n","e">>,
   <<"d","e","s">>, <<"e","t">>, <<"o","u">>, <<"d","a","n","s">>, <<"p","o","u","r">>, <<"a","v","e","c">>, <<"s","u","r">>}

\* Phase 3 on one trimmed line; the lines that start like a section header are
\* filtered out before the loop
Phase3Candidate(line) ==
  IF \E w \in {<<"E","X","P","E","R","I","E","N","C","E">>, <<"E","D","U","C","A","T","I","O","N">>, <<"P","R","O","J","E","T">>, <<"P","R","O","J","E","C","T">>, <<"C","O","M","P","E","T","E","N","C","E","S">>,
               <<"S","K","I","L","L","S">>, <<"C","E","R","T","I","F","I","C","A","T","I","O","N">>} : MatchAtCI(line, 1, w)
  THEN <<>>
  ELSE IF Len(line) < 5 \/ Len(line) > 100 THEN <<>>
  ELSE IF IsExcluded(line) THEN <<>>
  ELSE IF /\ line[1] \in NameUpper
          /\ \E p \in 1..Len(line) : line[p] \in LowerAscii
          /\ \E p \in 1..Len(line) : IsSpace(line[p]) \/ line[p] = "-"
          /\ Len(SplitSpaces(line)) \in 2..5
          /\ ~HasFourDigits(line)
          /\ ~\E w \in commonWords : \E p \in 1..Len(line) : WordAt(line, p, w)
  THEN line
  ELSE <<>>

\* the candidate of phase ph on the first of the lines 0..n-1 that has one
PhaseCandidate(ph, line) ==
  IF ph = 1 THEN Phase1Candidate(line)
  ELSE IF ph = 2 THEN Phase2Candidate(line)
  ELSE Phase3Candidate(line)

FirstCandidate(ph, ls, n) ==
  LET found == {k \in 1..(IF n < Len(ls) THEN n ELSE Len(ls)) :
                  PhaseCandidate(ph, Trim(ls[k])) # <<>>}
  IN IF found = {} THEN <<>> ELSE PhaseCandidate(ph, Trim(ls[Min(found)]))

\* lines.findIndex of the line that holds the email or the text of the phone
\* match; searchEndLine is that index when it is above 10, else 40
searchEndLine(ls, email, phone) ==
  LET hit == {k \in 1..Len(ls) :
                \/ (email # <<>> /\ Contains(ToLowerCase(ls[k]), ToLowerCase(email)))
                \/ (phone # <<>> /\ Contains(ls[k], phone))}
  IN IF hit # {} /\ Min(hit) - 1 > 10 THEN Min(hit) - 1 ELSE 40

NameNotFound == <<"N","a","m","e"," ","N","o","t"," ","F","o","u","n","d">>

\* extractNameMultiPhase had the loop of Phase 2 come before that of Phase 1
extractNameTitleFirst(ls, email, phone) ==
  IF FirstCandidate(2, ls, searchEndLine(ls, email, phone)) # <<>>
  THEN FirstCandidate(2, ls, searchEndLine(ls, email, phone))
  ELSE IF FirstCandidate(1, ls, 15) # <<>> THEN FirstCandidate(1, ls, 15)
  ELSE IF FirstCandidate(3, ls, 30) # <<>> THEN FirstCandidate(3, ls, 30)
  ELSE NameNotFound

extractNameMultiPhase(ls, email, phone) ==
  IF FirstCandidate(1, ls, 15) # <<>> THEN FirstCandidate(1, ls, 15)
  ELSE IF FirstCandidate(2, ls, searchEndLine(ls, email, phone)) # <<>>
  THEN FirstCandidate(2, ls, searchEndLine(ls, email, phone))
  ELSE IF FirstCandidate(3, ls, 30) # <<>> THEN FirstCandidate(3, ls, 30)
  ELSE NameNotFound

(***************************************************************************)
(* extractPosition and extractLocation.                                    *)
(***************************************************************************)
titleKeywords(code) ==
  IF code = "fr"
  THEN {<<"D","e'","v","e","l","o","p","p","e","u","r">>, <<"I","n","g","e'","n","i","e","u","r">>, <<"A","r","c","h","i","t","e","c","t","e">>, <<"C","h","e","f">>, <<"D","i","r","e","c","t","e","u","r">>,
        <<"C","o","n","s","u","l","t","a","n","t">>, <<"A","n","a","l","y","s","t","e">>, <<"T","e","c","h","n","i","c","i","e","n">>, <<"R","e","s","p","o","n","s","a","b","l","e">>, <<"M","a","n","a","g","e","r">>}
  ELSE {<<"D","e","v","e","l","o","p","e","r">>, <<"E","n","g","i","n","e","e","r">>, <<"A","r","c","h","i","t","e","c","t">>, <<"L","e","a","d">>, <<"D","i","r","e","c","t","o","r">>, <<"M","a","n","a","g","e","r">>,
        <<"C","o","n","s","u","l","t","a","n","t">>, <<"A","n","a","l","y","s","t">>, <<"S","p","e","c","i","a","l","i","s","t">>, <<"D","e","s","i","g","n","e","r">>}

\* the first of the lines 0..14 with a pipe or a title keyword, longer than 10
\* and shorter than 200 characters and without '@'; '' when there is none
extractPosition(ls, code) ==
  LET hit == {k \in 1..(IF Len(ls) < 15 THEN Len(ls) ELSE 15) :
                /\ \/ Contains(ls[k], <<"|">>)
                   \/ \E kw \in titleKeywords(code) : Contains(ls[k], kw)
                /\ Len(ls[k]) > 10
                /\ Len(ls[k]) < 200
                /\ ~Contains(ls[k], <<"@">>)}
  IN IF hit = {} THEN <<>> ELSE ls[Min(hit)]

techTerms ==
  {<<"S","p","r","i","n","g">>, <<"B","o","o","t">>, <<"R","e","a","c","t">>, <<"A","n","g","u","l","a","r">>, <<"N","o","d","e">>, <<"E","x","p","r","e","s","s">>, <<"D","j","a","n","g","o">>, <<"F","l","a","s","k">>,
   <<"L","a","r","a","v","e","l">>, <<"S","y","m","f","o","n","y">>, <<"M","y","S","Q","L">>, <<"M","o","n","g","o","D","B">>, <<"P","o","s","t","g","r","e","S","Q","L">>, <<"R","e","d","i","s">>, <<"D","o","c","k","e","r">>,
   <<"K","u","b","e","r","n","e","t","e","s">>, <<"A","W","S">>, <<"A","z","u","r","e">>, <<"G","C","P">>, <<"J","a","v","a","S","c","r","i","p","t">>, <<"T","y","p","e","S","c","r","i","p","t">>, <<"P","y","t","h","o","n">>,
   <<"J","a","v","a">>, <<"P","H","P">>, <<"R","u","b","y">>, <<"S","e","c","u","r","i","t","y">>, <<"F","r","a","m","e","w","o","r","k">>, <<"L","i","b","r","a","r","y">>}

validCities ==
  <<<<"F","e!","s">>, <<"F","e","s">>, <<"C","a","s","a","b","l","a","n","c","a">>, <<"R","a","b","a","t">>, <<"M","a","r","r","a","k","e","c","h">>, <<"T","a","n","g","e","r">>, <<"A","g","a","d","i","r">>,
    <<"M","o","h","a","m","m","e","d","i","a">>, <<"O","u","j","d","a">>, <<"K","e","n","i","t","r","a">>, <<"T","e","t","o","u","a","n">>, <<"P","a","r","i","s">>, <<"L","o","n","d","o","n">>, <<"N","e","w"," ","Y","o","r","k">>,
    <<"D","u","b","a","i">>, <<"B","e","r","l","i","n">>, <<"M","a","d","r","i","d">>, <<"R","o","m","e">>, <<"A","m","s","t","e","r","d","a","m">>>>

\* [A-Z][a-zà-ÿ]+ at p with the longest run of small letters: the position
\* after it, 0 if it fails
CapWordEnd(s, p) ==
  IF p >= 1 /\ p + 1 <= Len(s) /\ s[p] \in UpperAscii /\ s[p + 1] \in NameLower
  THEN SkipChars(s, p + 1, NameLower)
  ELSE 0

\* [A-Z][a-zà-ÿ]+(?:\s+[A-Z][a-zà-ÿ]+)? at p with both words at their longest:
\* <<end of the first word, end of the second>>, 0 for a word that fails
CapWordsEnd(s, p) ==
  LET e1 == CapWordEnd(s, p)
      w == SkipSpaces(s, e1)
  IN <<e1, IF e1 > 0 /\ w > e1 THEN CapWordEnd(s, w) ELSE 0>>

\* the largest position in lo..hi at which \b holds, 0 if there is none
LastBoundary(s, lo, hi) ==
  LET es == {e \in lo..hi : WordBoundary(s, e)}
  IN IF es = {} THEN 0 ELSE Max(es)

\* cityCountryPattern tried at p: [matched, city, country].
\* /\b([A-Z][a-zà-ÿ]+(?:\s+[A-Z][a-zà-ÿ]+)?),\s*([A-Z][a-zà-ÿ]+(?:\s+[A-Z][a-zà-ÿ]+)?)\b/
\* The first group ends at the comma; the second gives characters back, the
\* second word first, until \b holds.
CityCountryEnds(s, p, g1, c, g2) ==
  LET second == IF g2[2] > 0
                THEN LastBoundary(s, SkipSpaces(s, g2[1]) + 2, g2[2]) ELSE 0
      first == IF g2[1] > 0 THEN LastBoundary(s, c + 2, g2[1]) ELSE 0
  IN IF g1 = 0 \/ (second = 0 /\ first = 0)
     THEN [matched |-> FALSE, city |-> <<>>, country |-> <<>>]
     ELSE [matched |-> TRUE,
           city |-> Trim(SubSeq(s, p, g1 - 1)),
           country |-> Trim(SubSeq(s, c, (IF second > 0 THEN second ELSE first) - 1))]

\* the end of the first group at p: the position of the comma, 0 if it fails
CityEnd(s, p, e) ==
  IF ~WordBoundary(s, p) THEN 0
  ELSE IF e[2] > 0 /\ e[2] <= Len(s) /\ s[e[2]] = "," THEN e[2]
  ELSE IF e[1] > 0 /\ e[1] <= Len(s) /\ s[e[1]] = "," THEN e[1]
  ELSE 0

CityCountryFrom(s, p, g1) ==
  CityCountryEnds(s, p, g1, SkipSpaces(s, g1 + 1), CapWordsEnd(s, SkipSpaces(s, g1 + 1)))

CityCountryAt(s, p) == CityCountryFrom(s, p, CityEnd(s, p, CapWordsEnd(s, p)))

\* fullText.match(cityCountryPattern): the leftmost match
cityCountryMatch(s) ==
  LET ps == {p \in 1..Len(s) : CityCountryAt(s, p).matched}
  IN IF ps = {} THEN [matched |-> FALSE, city |-> <<>>, country |-> <<>>]
     ELSE CityCountryAt(s, Min(ps))

\* /(?:Location|Adresse|Address|Ville|City)[\s:]+([A-Za-zÀ-ÿ\s,]+)/i tried at p
\* with the label l: <<group 1>>, <<>> if it fails.  [\s:]+ gives characters
\* back until the group can start.
LocationLabelAt(s, p, l) ==
  LET e == p + Len(l)
      r == SkipChars(s, e, {" ", "\n", "\t", ":"})
      G == AsciiLetters \cup Latin1Letters \cup {" ", "\n", "\t", ","}
      gs == {g \in (e + 1)..r : g <= Len(s) /\ s[g] \in G}
  IN IF MatchAtCI(s, p, l) /\ gs # {}
     THEN <<SubSeq(s, Max(gs), SkipChars(s, Max(gs), G) - 1)>>
     ELSE <<>>

\* trimmed.match(locationLabelPattern)[1].trim(), as <<location>>; <<>> without
\* a match
locationLabelMatch(s) ==
  LET labels == {<<"L","o","c","a","t","i","o","n">>, <<"A","d","r","e","s","s","e">>, <<"A","d","d","r","e","s","s">>, <<"V","i","l","l","e">>, <<"C","i","t","y">>}
      ps == {p \in 1..Len(s) : \E l \in labels : LocationLabelAt(s, p, l) # <<>>}
      l0 == CHOOSE l \in labels : ps # {} /\ LocationLabelAt(s, Min(ps), l) # <<>>
  IN IF ps = {} THEN <<>> ELSE <<Trim(LocationLabelAt(s, Min(ps), l0)[1])>>

\* the body of the loop over topLines for one line: <<location>> when the line
\* makes the function return, <<>> when the loop goes on
LocationOfLine(line) ==
  LET cities == {k \in 1..Len(validCities) :
                   ToLowerCase(Trim(line)) = ToLowerCase(validCities[k])}
      labelled == locationLabelMatch(Trim(line))
  IN IF cities # {} THEN <<validCities[Min(cities)]>>
     ELSE IF /\ labelled # <<>>
             /\ ~\E tech \in techTerms : Contains(labelled[1], tech)
             /\ Len(labelled[1]) < 50
     THEN labelled
     ELSE <<>>

\* /\bl\s+([A-Z][a-zà-ÿ]+)\b/g tried at p: the position after the match, 0 if
\* it fails
LocationInSectionAt(s, p) ==
  LET w == SkipSpaces(s, p + 1)
  IN IF s[p] = "l" /\ WordBoundary(s, p) /\ w > p + 1 /\ CapWordEnd(s, w) > 0
     THEN LastBoundary(s, w + 2, CapWordEnd(s, w))
     ELSE 0

\* the while loop over locationInSectionPattern.exec(fullText): the candidates
\* in the order found, from position p on
RECURSIVE LocationCandidates(_, _)
LocationCandidates(s, p) ==
  LET ps == {q \in p..Len(s) : LocationInSectionAt(s, q) > 0}
      e == LocationInSectionAt(s, Min(ps))
      candidate == SubSeq(s, SkipSpaces(s, Min(ps) + 1), e - 1)
  IN IF ps = {} THEN <<>>
     ELSE (IF candidate \notin techTerms /\ Len(candidate) >= 3
           THEN <<candidate>> ELSE <<>>)
          \o LocationCandidates(s, e)

\* the first of the candidates that occur most often
MostCommon(cands) ==
  LET count(k) == Cardinality({j \in 1..Len(cands) : cands[j] = cands[k]})
      best == {k \in 1..Len(cands) : \A j \in 1..Len(cands) : count(j) <= count(k)}
  IN IF cands = <<>> THEN <<>> ELSE cands[Min(best)]

extractLocation(ls) ==
  LET m == cityCountryMatch(Join(ls))
      top == {k \in 1..(IF Len(ls) < 20 THEN Len(ls) ELSE 20) : LocationOfLine(ls[k]) # <<>>}
  IN IF m.matched /\ ~\E tech \in techTerms : Contains(m.city, tech) \/ Contains(m.country, tech)
     THEN m.city \o <<",", " ">> \o m.country
     ELSE IF top # {} THEN LocationOfLine(ls[Min(top)])[1]
     ELSE MostCommon(LocationCandidates(Join(ls), 1))

(***************************************************************************)
(* extractPersonalInfo.                                                    *)
(***************************************************************************)
extractPersonalInfo(ls, lang) ==
  [full_name |-> extractNameMultiPhase(ls, emailMatch(Join(ls)), phoneMatch(Join(ls))),
   position |-> extractPosition(ls, lang.code),
   email |-> Trim(emailMatch(Join(ls))),
   phone |-> cleanPhone(Join(ls)),
   location |-> extractLocation(ls),
   linkedin |-> linkedinUrl(Join(ls)),
   age |-> "null",
   gender |-> "null"]

(***************************************************************************)
(* extractEducationAdvanced.                                               *)
(***************************************************************************)
degreeKeywords(code) ==
  IF code = "fr"
  THEN {<<"I","n","g","e'","n","i","e","u","r">>, <<"M","a","s","t","e","r">>, <<"L","i","c","e","n","c","e">>, <<"D","U","T">>, <<"B","T","S">>, <<"D","i","p","l","o^","m","e">>, <<"D","o","c","t","o","r","a","t">>,
        <<"B","a","c","h","e","l","o","r">>, <<"T","e","c","h","n","i","c","i","e","n">>}
  ELSE {<<"E","n","g","i","n","e","e","r">>, <<"M","a","s","t","e","r">>, <<"B","a","c","h","e","l","o","r">>, <<"D","e","g","r","e","e">>, <<"D","i","p","l","o","m","a">>, <<"P","h","D">>,
        <<"D","o","c","t","o","r","a","t","e">>, <<"A","s","s","o","c","i","a","t","e">>, <<"C","e","r","t","i","f","i","c","a","t","e">>}

institutionKeywords ==
  {<<"U","n","i","v","e","r","s","i","t","e'">>, <<"U","n","i","v","e","r","s","i","t","y">>, <<"E'","c","o","l","e">>, <<"S","c","h","o","o","l">>, <<"I","n","s","t","i","t","u","t">>, <<"I","n","s","t","i","t","u","t","e">>,
   <<"F","a","c","u","l","t","e'">>, <<"F","a","c","u","l","t","y">>, <<"C","o","l","l","e","g","e">>, <<"I","S","T","A">>}

\* /(\d{4})\s*[-–—]\s*(\d{4})/ tried at p: the position after the match, 0 if
\* it fails
ClosedRangeAt(s, p) ==
  IF DigitsAt(s, p, 4) /\ DashAt(s, p + 4) > 0 /\ DigitsAt(s, DashAt(s, p + 4), 4)
  THEN DashAt(s, p + 4) + 4
  ELSE 0

\* the leftmost match of the closed range in s: [at, end), at = 0 without one
ClosedRangeMatch(s) ==
  LET ps == {p \in 1..Len(s) : ClosedRangeAt(s, p) > 0}
  IN IF ps = {} THEN [at |-> 0, end |-> 0]
     ELSE [at |-> Min(ps), end |-> ClosedRangeAt(s, Min(ps))]

\* s.replace(/\d{4}\s*[-–—]\s*\d{4}/, '').trim()
StripClosedRange(s) ==
  LET m == ClosedRangeMatch(s)
  IN IF m.at = 0 THEN Trim(s)
     ELSE Trim(SubSeq(s, 1, m.at - 1) \o SubSeq(s, m.end, Len(s)))

\* line.match(new RegExp(`(${institutionKeywords.join('|')})[^\\d|]*`, 'i')):
\* [at, end) of the leftmost match, at = 0 without one
InstitutionMatch(s) ==
  LET ps == {p \in 1..Len(s) : \E kw \in institutionKeywords : MatchAtCI(s, p, kw)}
      stop == {q \in Min(ps)..Len(s) : s[q] \in Digit \cup {"|"}}
  IN IF ps = {} THEN [at |-> 0, end |-> 0]
     ELSE [at |-> Min(ps), end |-> IF stop = {} THEN Len(s) + 1 ELSE Min(stop)]

\* degree and institution of a line before the date range is stripped
DegreeAndInstitution(line, im) ==
  IF Contains(line, <<"|">>)
  THEN [degree |-> IF PipePart(line, 0) = <<>> THEN line ELSE PipePart(line, 0),
        institution |-> PipePart(line, 1)]
  ELSE IF im.at > 0
  THEN [degree |-> Trim(SubSeq(line, 1, im.at - 1)),
        institution |-> Trim(SubSeq(line, im.at, im.end - 1))]
  ELSE [degree |-> line, institution |-> <<>>]

\* the entry pushed for a line with a degree or an institution keyword
EducationEntry(line, di, dm) ==
  [degree |-> StripClosedRange(di.degree),
   institution |-> StripClosedRange(di.institution),
   field_of_study |-> "null",
   start_date |-> IF dm.at > 0 THEN SubSeq(line, dm.at, dm.at + 3) ELSE "null",
   end_date |-> IF dm.at > 0 THEN SubSeq(line, dm.end - 4, dm.end - 1) ELSE "null"]

\* the body of the for loop for one trimmed line: the entries it pushes
EducationOfLine(line, code) ==
  IF \E w \in {<<"E","D","U","C","A","T","I","O","N">>, <<"F","O","R","M","A","T","I","O","N">>, <<"E'","D","U","C","A","T","I","O","N">>} : MatchAtCI(line, 1, w)
  THEN <<>>
  ELSE IF \/ \E kw \in degreeKeywords(code) : \E p \in 1..Len(line) : WordAt(line, p, kw)
          \/ \E kw \in institutionKeywords : \E p \in 1..Len(line) : WordAt(line, p, kw)
  THEN <<EducationEntry(line, DegreeAndInstitution(line, InstitutionMatch(line)),
                        ClosedRangeMatch(line))>>
  ELSE <<>>

RECURSIVE EducationOfLines(_, _)
EducationOfLines(ls, code) ==
  IF ls = <<>> THEN <<>>
  ELSE EducationOfLine(Head(ls), code) \o EducationOfLines(Tail(ls), code)

extractEducationAdvanced(secs, code) ==
  IF "education" \notin DOMAIN secs THEN <<>>
  ELSE EducationOfLines(TrimmedLines(secs["education"].content), code)

(***************************************************************************)
(* extractSkillsAdvanced.                                                  *)
(***************************************************************************)
\* the entries of skillDatabase as skill.replace(/\\/g, '') gives them; the
\* pattern built from an entry matches exactly this text
skillDatabase ==
  <<
    <<"J","a","v","a","S","c","r","i","p","t">>,
    <<"T","y","p","e","S","c","r","i","p","t">>,
    <<"P","y","t","h","o","n">>,
    <<"J","a","v","a">>,
    <<"C","+","+">>,
    <<"C","#">>,
    <<"P","H","P">>,
    <<"R","u","b","y">>,
    <<"G","o">>,
    <<"R","u","s","t">>,
    <<"K","o","t","l","i","n">>,
    <<"S","w","i","f","t">>,
    <<"S","c","a","l","a">>,
    <<"D","a","r","t">>,
    <<"R">>,
    <<"M","A","T","L","A","B">>,
    <<"P","e","r","l">>,
    <<"O","b","j","e","c","t","i","v","e","-","C">>,
    <<"R","e","a","c","t">>,
    <<"A","n","g","u","l","a","r">>,
    <<"V","u","e",".","j","s">>,
    <<"S","v","e","l","t","e">>,
    <<"N","e","x","t",".","j","s">>,
    <<"N","u","x","t">>,
    <<"G","a","t","s","b","y">>,
    <<"E","m","b","e","r">>,
    <<"B","a","c","k","b","o","n","e">>,
    <<"j","Q","u","e","r","y">>,
    <<"R","e","d","u","x">>,
    <<"M","o","b","X">>,
    <<"V","u","e","x">>,
    <<"N","o","d","e",".","j","s">>,
    <<"E","x","p","r","e","s","s">>,
    <<"D","j","a","n","g","o">>,
    <<"F","l","a","s","k">>,
    <<"F","a","s","t","A","P","I">>,
    <<"S","p","r","i","n","g">>,
    <<"S","p","r","i","n","g"," ","B","o","o","t">>,
    <<"L","a","r","a","v","e","l">>,
    <<"S","y","m","f","o","n","y">>,
    <<"A","S","P",".","N","E","T">>,
    <<"R","a","i","l","s">>,
    <<"R","u","b","y"," ","o","n"," ","R","a","i","l","s">>,
    <<"G","i","n">>,
    <<"E","c","h","o">>,
    <<"M","y","S","Q","L">>,
    <<"P","o","s","t","g","r","e","S","Q","L">>,
    <<"M","o","n","g","o","D","B">>,
    <<"R","e","d","i","s">>,
    <<"E","l","a","s","t","i","c","s","e","a","r","c","h">>,
    <<"F","i","r","e","b","a","s","e">>,
    <<"D","y","n","a","m","o","D","B">>,
    <<"O","r","a","c","l","e">>,
    <<"S","Q","L"," ","S","e","r","v","e","r">>,
    <<"M","a","r","i","a","D","B">>,
    <<"C","a","s","s","a","n","d","r","a">>,
    <<"N","e","o","4","j">>,
    <<"S","Q","L","i","t","e">>,
    <<"C","o","u","c","h","D","B">>,
    <<"H","i","b","e","r","n","a","t","e">>,
    <<"S","e","q","u","e","l","i","z","e">>,
    <<"M","o","n","g","o","o","s","e">>,
    <<"D","o","c","t","r","i","n","e">>,
    <<"T","y","p","e","O","R","M">>,
    <<"P","r","i","s","m","a">>,
    <<"K","n","e","x">>,
    <<"A","W","S">>,
    <<"A","z","u","r","e">>,
    <<"G","C","P">>,
    <<"G","o","o","g","l","e"," ","C","l","o","u","d">>,
    <<"D","o","c","k","e","r">>,
    <<"K","u","b","e","r","n","e","t","e","s">>,
    <<"J","e","n","k","i","n","s">>,
    <<"G","i","t","L","a","b"," ","C","I">>,
    <<"G","i","t","H","u","b"," ","A","c","t","i","o","n","s">>,
    <<"C","i","r","c","l","e","C","I">>,
    <<"T","r","a","v","i","s"," ","C","I">>,
    <<"T","e","r","r","a","f","o","r","m">>,
    <<"A","n","s","i","b","l","e">>,
    <<"C","h","e","f">>,
    <<"P","u","p","p","e","t">>,
    <<"V","a","g","r","a","n","t">>,
    <<"H","T","M","L">>,
    <<"H","T","M","L","5">>,
    <<"C","S","S">>,
    <<"C","S","S","3">>,
    <<"S","C","S","S">>,
    <<"S","A","S","S">>,
    <<"L","e","s","s">>,
    <<"T","a","i","l","w","i","n","d"," ","C","S","S">>,
    <<"B","o","o","t","s","t","r","a","p">>,
    <<"M","a","t","e","r","i","a","l","-","U","I">>,
    <<"A","n","t"," ","D","e","s","i","g","n">>,
    <<"C","h","a","k","r","a"," ","U","I">>,
    <<"S","t","y","l","e","d"," ","C","o","m","p","o","n","e","n","t","s">>,
    <<"R","e","a","c","t"," ","N","a","t","i","v","e">>,
    <<"F","l","u","t","t","e","r">>,
    <<"I","o","n","i","c">>,
    <<"X","a","m","a","r","i","n">>,
    <<"S","w","i","f","t">>,
    <<"K","o","t","l","i","n">>,
    <<"A","n","d","r","o","i","d">>,
    <<"i","O","S">>,
    <<"S","w","i","f","t","U","I">>,
    <<"R","E","S","T">>,
    <<"R","E","S","T","f","u","l">>,
    <<"G","r","a","p","h","Q","L">>,
    <<"g","R","P","C">>,
    <<"W","e","b","S","o","c","k","e","t">>,
    <<"S","O","A","P">>,
    <<"A","P","I">>,
    <<"J","e","s","t">>,
    <<"M","o","c","h","a">>,
    <<"J","a","s","m","i","n","e">>,
    <<"C","y","p","r","e","s","s">>,
    <<"S","e","l","e","n","i","u","m">>,
    <<"J","U","n","i","t">>,
    <<"P","y","T","e","s","t">>,
    <<"T","e","s","t","N","G">>,
    <<"K","a","r","m","a">>,
    <<"P","r","o","t","r","a","c","t","o","r">>,
    <<"G","i","t">>,
    <<"G","i","t","H","u","b">>,
    <<"G","i","t","L","a","b">>,
    <<"B","i","t","b","u","c","k","e","t">>,
    <<"S","V","N">>,
    <<"M","e","r","c","u","r","i","a","l">>,
    <<"A","g","i","l","e">>,
    <<"S","c","r","u","m">>,
    <<"K","a","n","b","a","n">>,
    <<"J","i","r","a">>,
    <<"T","r","e","l","l","o">>,
    <<"A","s","a","n","a">>,
    <<"C","o","n","f","l","u","e","n","c","e">>,
    <<"M","i","c","r","o","s","e","r","v","i","c","e","s">>,
    <<"S","e","r","v","e","r","l","e","s","s">>,
    <<"L","a","m","b","d","a">>,
    <<"C","I","/","C","D">>,
    <<"M","a","c","h","i","n","e"," ","L","e","a","r","n","i","n","g">>,
    <<"D","e","e","p"," ","L","e","a","r","n","i","n","g">>,
    <<"T","e","n","s","o","r","F","l","o","w">>,
    <<"P","y","T","o","r","c","h">>,
    <<"N","L","P">>,
    <<"D","a","t","a"," ","S","c","i","e","n","c","e">>,
    <<"B","i","g"," ","D","a","t","a">>,
    <<"H","a","d","o","o","p">>,
    <<"S","p","a","r","k">>,
    <<"K","a","f","k","a">>,
    <<"F","i","g","m","a">>,
    <<"S","k","e","t","c","h">>,
    <<"A","d","o","b","e"," ","X","D">>,
    <<"P","h","o","t","o","s","h","o","p">>,
    <<"I","l","l","u","s","t","r","a","t","o","r">>,
    <<"I","n","V","i","s","i","o","n">>,
    <<"D","e'","v","e","l","o","p","p","e","m","e","n","t">>,
    <<"P","r","o","g","r","a","m","m","a","t","i","o","n">>,
    <<"B","a","s","e"," ","d","e"," ","d","o","n","n","e'","e","s">>,
    <<"G","e","s","t","i","o","n"," ","d","e"," ","p","r","o","j","e","t">>,
    <<"M","e'","t","h","o","d","o","l","o","g","i","e"," ","A","g","i","l","e">>,
    <<"I","n","t","e'","g","r","a","t","i","o","n"," ","c","o","n","t","i","n","u","e">>
  >>

\* skillDatabase.forEach had skills been an array and add a push
AddSkillsPush(found, txt) ==
  LET added == SelectSeq([k \in 1..Len(skillDatabase) |-> k],
                 LAMBDA k : \E p \in 1..Len(txt) : WordAt(txt, p, skillDatabase[k]))
  IN found \o [n \in 1..Len(added) |-> skillDatabase[added[n]]]

\* skillDatabase.forEach: skills.add(skill) for every skill whose pattern
\* \bskill\b (flag i) matches txt; a Set keeps the first insertion only
AddSkills(found, txt) ==
  LET added == SelectSeq([k \in 1..Len(skillDatabase) |-> k],
                 LAMBDA k : /\ \E p \in 1..Len(txt) : WordAt(txt, p, skillDatabase[k])
                            /\ \A j \in 1..(k - 1) : skillDatabase[j] # skillDatabase[k]
                            /\ \A j \in 1..Len(found) : found[j] # skillDatabase[k])
  IN found \o [n \in 1..Len(added) |-> skillDatabase[added[n]]]

extractSkillsAdvanced(secs, ls) ==
  AddSkills(IF "skills" \in DOMAIN secs
            THEN AddSkills(<<>>, Join(secs["skills"].content))
            ELSE <<>>,
            Join(ls))

(***************************************************************************)
(* extractLanguagesAdvanced.                                               *)
(***************************************************************************)
\* the alternatives of proficiencyPattern, in the order written
proficiencyNames ==
  <<<<"E","n","g","l","i","s","h">>,
    <<"F","r","e","n","c","h">>,
    <<"S","p","a","n","i","s","h">>,
    <<"G","e","r","m","a","n">>,
    <<"A","r","a","b","i","c">>,
    <<"C","h","i","n","e","s","e">>,
    <<"J","a","p","a","n","e","s","e">>,
    <<"P","o","r","t","u","g","u","e","s","e">>,
    <<"I","t","a","l","i","a","n">>,
    <<"D","u","t","c","h">>,
    <<"R","u","s","s","i","a","n">>,
    <<"K","o","r","e","a","n">>,
    <<"T","u","r","k","i","s","h">>,
    <<"H","i","n","d","i">>,
    <<"A","n","g","l","a","i","s">>,
    <<"F","r","a","n","c,","a","i","s">>,
    <<"E","s","p","a","g","n","o","l">>,
    <<"A","l","l","e","m","a","n","d">>,
    <<"A","r","a","b","e">>,
    <<"C","h","i","n","o","i","s">>,
    <<"J","a","p","o","n","a","i","s">>,
    <<"P","o","r","t","u","g","a","i","s">>,
    <<"I","t","a","l","i","e","n">>,
    <<"N","e'","e","r","l","a","n","d","a","i","s">>,
    <<"R","u","s","s","e">>,
    <<"C","o","r","e'","e","n">>,
    <<"T","u","r","c">>>>

langMap ==
  (<<"a","n","g","l","a","i","s">> :> <<"e","n","g","l","i","s","h">>)
  @@ (<<"f","r","a","n","c,","a","i","s">> :> <<"f","r","e","n","c","h">>)
  @@ (<<"e","s","p","a","g","n","o","l">> :> <<"s","p","a","n","i","s","h">>)
  @@ (<<"a","l","l","e","m","a","n","d">> :> <<"g","e","r","m","a","n">>)
  @@ (<<"a","r","a","b","e">> :> <<"a","r","a","b","i","c">>)
  @@ (<<"c","h","i","n","o","i","s">> :> <<"c","h","i","n","e","s","e">>)
  @@ (<<"j","a","p","o","n","a","i","s">> :> <<"j","a","p","a","n","e","s","e">>)
  @@ (<<"p","o","r","t","u","g","a","i","s">> :> <<"p","o","r","t","u","g","u","e","s","e">>)
  @@ (<<"i","t","a","l","i","e","n">> :> <<"i","t","a","l","i","a","n">>)
  @@ (<<"n","e'","e","r","l","a","n","d","a","i","s">> :> <<"d","u","t","c","h">>)
  @@ (<<"r","u","s","s","e">> :> <<"r","u","s","s","i","a","n">>)
  @@ (<<"c","o","r","e'","e","n">> :> <<"k","o","r","e","a","n">>)
  @@ (<<"t","u","r","c">> :> <<"t","u","r","k","i","s","h">>)

\* proficiencyPattern tried at p: match[1], <<>> when it fails
ProficiencyAt(s, p) ==
  LET alts == {n \in 1..Len(proficiencyNames) : WordAt(s, p, proficiencyNames[n])}
  IN IF alts = {} THEN <<>>
     ELSE SubSeq(s, p, p + Len(proficiencyNames[Min(alts)]) - 1)

\* while ((match = proficiencyPattern.exec(searchText)) !== null), the search
\* resuming at p = lastIndex; found is the Set languages in insertion order
RECURSIVE LanguagesFrom(_, _, _)
LanguagesFrom(s, p, found) ==
  LET ps == {q \in p..Len(s) : ProficiencyAt(s, q) # <<>>}
      lang == ToLowerCase(ProficiencyAt(s, Min(ps)))
      finalLang == IF lang \in DOMAIN langMap THEN langMap[lang] ELSE lang
  IN IF ps = {} THEN found
     ELSE LanguagesFrom(s, Min(ps) + Len(lang),
                        IF \E j \in 1..Len(found) : found[j] = finalLang
                        THEN found ELSE Append(found, finalLang))

extractLanguagesAdvanced(secs, ls) ==
  LanguagesFrom(IF "languages" \in DOMAIN secs
                THEN Join(secs["languages"].content) ELSE Join(ls),
                1, <<>>)

(***************************************************************************)
(* extractCertificationsAdvanced and extractProjectsAdvanced.              *)
(***************************************************************************)
\* s.match(/(\d{4})/): the position of the first run of four digits, 0 if none
FirstFourDigits(s) ==
  IF HasFourDigits(s) THEN Min({p \in 1..Len(s) : DigitsAt(s, p, 4)}) ELSE 0

\* s.replace(/\d{4}/, '')
RemoveFourDigits(s) ==
  IF FirstFourDigits(s) = 0 THEN s
  ELSE SubSeq(s, 1, FirstFourDigits(s) - 1) \o SubSeq(s, FirstFourDigits(s) + 4, Len(s))

\* /^(?:CERTIFICATIONS?|CERTIFICATS?)/i
certificationHeaderWords == {<<"C","E","R","T","I","F","I","C","A","T","I","O","N">>, <<"C","E","R","T","I","F","I","C","A","T">>}

\* /^(?:BACHELOR|MASTER|ENGINEER|INGÉNIEUR|LICENCE|DEGREE|DIPLOMA|UNIVERSITY|UNIVERSITÉ)/i
certificationDegreeWords ==
  {<<"B","A","C","H","E","L","O","R">>, <<"M","A","S","T","E","R">>, <<"E","N","G","I","N","E","E","R">>, <<"I","N","G","E'","N","I","E","U","R">>, <<"L","I","C","E","N","C","E">>, <<"D","E","G","R","E","E">>, <<"D","I","P","L","O","M","A">>,
   <<"U","N","I","V","E","R","S","I","T","Y">>, <<"U","N","I","V","E","R","S","I","T","E'">>}

\* the body of the for loop: the certifications pushed for one line
CertificationOfLine(line) ==
  LET trimmed == Trim(line)
      cert == Trim(StripBullet(trimmed))
  IN IF trimmed = <<>> \/ \E w \in certificationHeaderWords : MatchAtCI(trimmed, 1, w)
     THEN <<>>
     ELSE IF ~BulletStart(trimmed) THEN <<>>
     ELSE IF \E w \in certificationDegreeWords : MatchAtCI(cert, 1, w) THEN <<>>
     ELSE IF Len(cert) > 3 /\ Len(cert) < 300
     THEN <<[name |-> Trim(RemoveFourDigits(cert)),
             issuer |-> <<>>,
             date |-> IF FirstFourDigits(cert) = 0 THEN <<>>
                      ELSE SubSeq(cert, FirstFourDigits(cert), FirstFourDigits(cert) + 3)]>>
     ELSE <<>>

RECURSIVE CertificationsOfLines(_)
CertificationsOfLines(ls) ==
  IF ls = <<>> THEN <<>>
  ELSE CertificationOfLine(Head(ls)) \o CertificationsOfLines(Tail(ls))

\* extractCertificationsAdvanced had it, like extractLanguagesAdvanced, fallen
\* back on all the lines of the document when there is no section
extractCertificationsAnywhere(secs) ==
  IF "certifications" \notin DOMAIN secs THEN CertificationsOfLines(lines)
  ELSE CertificationsOfLines(secs["certifications"].content)

\* without a certifications section it returns [] at once
extractCertificationsAdvanced(secs) ==
  IF "certifications" \notin DOMAIN secs THEN <<>>
  ELSE CertificationsOfLines(secs["certifications"].content)

\* s.replace(/[-•]/, ''): s without its first dash or bullet
RemoveFirstDash(s) ==
  LET ps == {p \in 1..Len(s) : s[p] \in {"-", "bullet"}}
  IN IF ps = {} THEN s ELSE SubSeq(s, 1, Min(ps) - 1) \o SubSeq(s, Min(ps) + 1, Len(s))

\* projects.push({name: currentProject, description: ..., date: currentDate})
PushProject(st) ==
  Append(st.projects,
         [name |-> st.currentProject, description |-> Trim(st.currentDescription),
          date |-> st.currentDate])

\* the body of the for loop; st holds currentProject, currentDescription,
\* currentDate and projects
ProjectStep(st, line) ==
  LET trimmed == Trim(line)
  IN IF trimmed = <<>> \/ \E w \in {<<"P","R","O","J","E","T">>, <<"P","R","O","J","E","C","T">>} : MatchAtCI(trimmed, 1, w)
     THEN st
     ELSE IF HasFourDigits(trimmed)
     THEN [currentProject |-> Trim(RemoveFirstDash(RemoveFourDigits(trimmed))),
           currentDescription |-> <<>>,
           currentDate |-> SubSeq(trimmed, FirstFourDigits(trimmed), FirstFourDigits(trimmed) + 3),
           projects |-> IF st.currentProject # <<>> THEN PushProject(st) ELSE st.projects]
     ELSE IF BulletStart(trimmed)
     THEN IF st.currentProject # <<>> /\ st.currentDescription # <<>>
          THEN [currentProject |-> <<>>,
                currentDescription |-> StripBullet(trimmed) \o <<" ">>,
                currentDate |-> st.currentDate,
                projects |-> PushProject(st)]
          ELSE [st EXCEPT !.currentDescription = @ \o StripBullet(trimmed) \o <<" ">>]
     ELSE IF st.currentProject # <<>>
     THEN [st EXCEPT !.currentDescription = @ \o trimmed \o <<" ">>]
     ELSE st

RECURSIVE ProjectsOfLines(_, _)
ProjectsOfLines(st, ls) ==
  IF ls = <<>>
  THEN (IF st.currentProject # <<>> THEN PushProject(st) ELSE st.projects)
  ELSE ProjectsOfLines(ProjectStep(st, Head(ls)), Tail(ls))

extractProjectsAdvanced(secs) ==
  IF "projects" \notin DOMAIN secs THEN <<>>
  ELSE ProjectsOfLines([currentProject |-> <<>>, currentDescription |-> <<>>,
                        currentDate |-> <<>>, projects |-> <<>>],
                       secs["projects"].content)

(***************************************************************************)
(* estimateSeniority and detectIndustry.                                   *)
(***************************************************************************)
\* /master|phd|doctorate|ingénieur/i
advancedDegreeWords == {<<"m","a","s","t","e","r">>, <<"p","h","d">>, <<"d","o","c","t","o","r","a","t","e">>, <<"i","n","g","e'","n","i","e","u","r">>}

\* /lead|senior|principal|architect|chief|director/i
leadRoleWords == {<<"l","e","a","d">>, <<"s","e","n","i","o","r">>, <<"p","r","i","n","c","i","p","a","l">>, <<"a","r","c","h","i","t","e","c","t">>, <<"c","h","i","e","f">>, <<"d","i","r","e","c","t","o","r">>}

SeniorityLevel ==
  [entry |-> <<"E","n","t","r","y"," ","L","e","v","e","l">>, junior |-> <<"J","u","n","i","o","r">>, mid |-> <<"M","i","d"," ","L","e","v","e","l">>,
   midSenior |-> <<"M","i","d","-","S","e","n","i","o","r">>, senior |-> <<"S","e","n","i","o","r">>, lead |-> <<"L","e","a","d","/","P","r","i","n","c","i","p","a","l">>]

\* estimateSeniority had it not looked at the degrees
estimateSeniorityByYears(years, experience, edu) ==
  LET hasLeadRole ==
        \E k \in 1..Len(experience) :
          \E w \in leadRoleWords : ContainsCI(experience[k].position, w)
  IN IF years = 0 /\ Len(edu) = 0 THEN SeniorityLevel.entry
     ELSE IF years < 2 THEN SeniorityLevel.junior
     ELSE IF years < 5 THEN (IF hasLeadRole THEN SeniorityLevel.midSenior ELSE SeniorityLevel.mid)
     ELSE IF years < 10 THEN (IF hasLeadRole THEN SeniorityLevel.senior ELSE SeniorityLevel.midSenior)
     ELSE SeniorityLevel.lead

\* estimateSeniority had the labels of a lead role been exchanged between the
\* ranges of years
estimateSeniorityLabelsSwapped(years, experience, edu) ==
  LET hasAdvancedDegree ==
        \E k \in 1..Len(edu) : \E w \in advancedDegreeWords : ContainsCI(edu[k].degree, w)
      hasLeadRole ==
        \E k \in 1..Len(experience) :
          \E w \in leadRoleWords : ContainsCI(experience[k].position, w)
  IN IF years = 0 /\ Len(edu) = 0 THEN SeniorityLevel.entry
     ELSE IF years < 2 /\ ~hasAdvancedDegree THEN SeniorityLevel.junior
     ELSE IF years < 5 THEN (IF hasLeadRole THEN SeniorityLevel.senior ELSE SeniorityLevel.mid)
     ELSE IF years < 10 THEN (IF hasLeadRole THEN SeniorityLevel.midSenior ELSE SeniorityLevel.midSenior)
     ELSE SeniorityLevel.lead

estimateSeniority(years, experience, edu) ==
  LET hasAdvancedDegree ==
        \E k \in 1..Len(edu) : \E w \in advancedDegreeWords : ContainsCI(edu[k].degree, w)
      hasLeadRole ==
        \E k \in 1..Len(experience) :
          \E w \in leadRoleWords : ContainsCI(experience[k].position, w)
  IN IF years = 0 /\ Len(edu) = 0 THEN SeniorityLevel.entry
     ELSE IF years < 2 /\ ~hasAdvancedDegree THEN SeniorityLevel.junior
     ELSE IF years < 5 THEN (IF hasLeadRole THEN SeniorityLevel.midSenior ELSE SeniorityLevel.mid)
     ELSE IF years < 10 THEN (IF hasLeadRole THEN SeniorityLevel.senior ELSE SeniorityLevel.midSenior)
     ELSE SeniorityLevel.lead

\* the industries object, in the order of Object.entries
industries ==
  <<[industry |-> <<"S","o","f","t","w","a","r","e"," ","D","e","v","e","l","o","p","m","e","n","t">>,
     keywords |-> {<<"r","e","a","c","t">>, <<"a","n","g","u","l","a","r">>, <<"n","o","d","e">>, <<"p","y","t","h","o","n">>, <<"j","a","v","a">>, <<"d","e","v","e","l","o","p","e","r">>, <<"s","o","f","t","w","a","r","e">>}],
    [industry |-> <<"D","a","t","a"," ","S","c","i","e","n","c","e">>,
     keywords |-> {<<"m","a","c","h","i","n","e"," ","l","e","a","r","n","i","n","g">>, <<"d","a","t","a"," ","s","c","i","e","n","c","e">>, <<"t","e","n","s","o","r","f","l","o","w">>, <<"p","y","t","o","r","c","h">>, <<"n","l","p">>, <<"a","n","a","l","y","t","i","c","s">>}],
    [industry |-> <<"D","e","v","O","p","s">>,
     keywords |-> {<<"d","o","c","k","e","r">>, <<"k","u","b","e","r","n","e","t","e","s">>, <<"a","w","s">>, <<"a","z","u","r","e">>, <<"t","e","r","r","a","f","o","r","m">>, <<"j","e","n","k","i","n","s">>, <<"c","i","/","c","d">>}],
    [industry |-> <<"M","o","b","i","l","e"," ","D","e","v","e","l","o","p","m","e","n","t">>,
     keywords |-> {<<"r","e","a","c","t"," ","n","a","t","i","v","e">>, <<"f","l","u","t","t","e","r">>, <<"i","o","s">>, <<"a","n","d","r","o","i","d">>, <<"m","o","b","i","l","e">>}],
    [industry |-> <<"W","e","b"," ","D","e","v","e","l","o","p","m","e","n","t">>,
     keywords |-> {<<"h","t","m","l">>, <<"c","s","s">>, <<"j","a","v","a","s","c","r","i","p","t">>, <<"f","r","o","n","t","e","n","d">>, <<"b","a","c","k","e","n","d">>, <<"f","u","l","l"," ","s","t","a","c","k">>}],
    [industry |-> <<"C","l","o","u","d"," ","C","o","m","p","u","t","i","n","g">>,
     keywords |-> {<<"a","w","s">>, <<"a","z","u","r","e">>, <<"g","c","p">>, <<"c","l","o","u","d">>, <<"s","e","r","v","e","r","l","e","s","s">>, <<"l","a","m","b","d","a">>}]>>

detectIndustry(sk, experience) ==
  LET combined ==
        ToLowerCase(JoinSpace(sk)) \o <<" ">>
          \o ToLowerCase(JoinSpace([k \in 1..Len(experience) |-> experience[k].description]))
      score(n) == Cardinality({kw \in industries[n].keywords : Contains(combined, kw)})
      best == {n \in 1..Len(industries) : \A o \in 1..Len(industries) : score(o) <= score(n)}
  IN IF \A n \in 1..Len(industries) : score(n) = 0 THEN <<>>
     ELSE industries[Min(best)].industry

(***************************************************************************)
(* calculateConfidenceScore, in hundredths.                                *)
(***************************************************************************)
confidencePoints(pi, ex, ed, sk) ==
  (IF pi.full_name # <<>> /\ pi.full_name # NameNotFound THEN 20 ELSE 0)
  + (IF pi.email # <<>> THEN 15 ELSE 0)
  + (IF pi.phone # <<>> THEN 10 ELSE 0)
  + (IF Len(ex) > 0 THEN 25 ELSE 0)
  + (IF Len(ed) > 0 THEN 15 ELSE 0)
  + (IF Len(sk) > 5 THEN 15 ELSE 0)

\* the score without Math.min
calculateConfidenceScoreUncapped(pi, ex, ed, sk) == confidencePoints(pi, ex, ed, sk)

calculateConfidenceScore(pi, ex, ed, sk) ==
  IF confidencePoints(pi, ex, ed, sk) < 95 THEN confidencePoints(pi, ex, ed, sk) ELSE 95

(***************************************************************************)
(* The steps of performAdvancedExtraction.                                 *)
(***************************************************************************)
\* the order of the calls at lines 258-264
SourceOrder ==
  <<"personal", "experience", "education", "skills", "languages", "certifications",
    "projects">>

\* the position reached when the extractor e returns: the next extractor of
\* the order, or the building of the result after the last one
Following(e) ==
  LET k == CHOOSE n \in 1..Len(order) : order[n] = e
  IN IF k = Len(order) THEN "result" ELSE order[k + 1]

\* buildExtractionContext; documentType is stored in the context and read by
\* no extractor
BuildExtractionContext ==
  /\ pc = "start"
  /\ lines' = TrimmedLines(text)
  /\ language' = detectLanguage(text)
  /\ sections' = identifySections(text, language')
  /\ pc' = order[1]
  /\ UNCHANGED <<now, expVars, outVars, callVars, listVars, order, cvVars>>

\* this.extractPersonalInfo(context)
ExtractPersonalInfo ==
  /\ pc = "personal"
  /\ personalInfo' = extractPersonalInfo(lines, language)
  /\ pc' = Following("personal")
  /\ UNCHANGED <<now, ctxVars, expVars, education, skills, result, callVars, listVars, order, cvVars>>

\* extractExperienceAdvanced up to the while loop had experiences been a field
\* of the service that no invocation empties
ExtractExperienceBeginKeep ==
  /\ pc = "experience"
  /\ expI' = 0
  /\ IF "experience" \in DOMAIN sections
     THEN /\ expLines' = TrimmedLines(sections["experience"].content)
          /\ pc' = "experienceLoop"
     ELSE /\ expLines' = <<>>
          /\ pc' = Following("experience")
  /\ UNCHANGED <<now, ctxVars, experiences, outVars, callVars, listVars, order, cvVars>>

\* extractExperienceAdvanced up to the while loop, with experiences declared
\* empty: without an experience section it returns [] at once
ExtractExperienceBegin ==
  /\ pc = "experience"
  /\ expI' = 0
  /\ experiences' = <<>>
  /\ IF "experience" \in DOMAIN sections
     THEN /\ expLines' = TrimmedLines(sections["experience"].content)
          /\ pc' = "experienceLoop"
     ELSE /\ expLines' = <<>>
          /\ pc' = Following("experience")
  /\ UNCHANGED <<now, ctxVars, outVars, callVars, listVars, order, cvVars>>

\* one iteration of while (i < lines.length)
ExperienceLoop ==
  /\ pc = "experienceLoop"
  /\ expI < Len(expLines)
  /\ \E r \in {WhileIteration(expLines, expI, now)} :
       /\ expI' = r.i
       /\ experiences' = experiences \o r.found
  /\ UNCHANGED <<pc, now, ctxVars, expLines, outVars, callVars, listVars, order, cvVars>>

\* the loop ends and extractExperienceAdvanced returns experiences
ExperienceReturn ==
  /\ pc = "experienceLoop"
  /\ expI >= Len(expLines)
  /\ pc' = Following("experience")
  /\ UNCHANGED <<now, ctxVars, expVars, outVars, callVars, listVars, order, cvVars>>

\* this.extractEducationAdvanced(context)
ExtractEducation ==
  /\ pc = "education"
  /\ education' = extractEducationAdvanced(sections, language.code)
  /\ pc' = Following("education")
  /\ UNCHANGED <<now, ctxVars, expVars, personalInfo, skills, result, callVars, listVars, order, cvVars>>

\* extractSkillsAdvanced had it removed from the context the section it read
ExtractSkillsConsuming ==
  /\ pc = "skills"
  /\ skills' = extractSkillsAdvanced(sections, lines)
  /\ sections' = [n \in DOMAIN sections \ {"skills"} |-> sections[n]]
  /\ pc' = Following("skills")
  /\ UNCHANGED <<now, language, lines, expVars, personalInfo, education, result, callVars,
                 listVars, order, cvVars>>

\* this.extractSkillsAdvanced(context)
ExtractSkills ==
  /\ pc = "skills"
  /\ skills' = extractSkillsAdvanced(sections, lines)
  /\ pc' = Following("skills")
  /\ UNCHANGED <<now, ctxVars, expVars, personalInfo, education, result, callVars, listVars, order, cvVars>>

\* this.extractLanguagesAdvanced(context)
ExtractLanguages ==
  /\ pc = "languages"
  /\ languages' = extractLanguagesAdvanced(sections, lines)
  /\ pc' = Following("languages")
  /\ UNCHANGED <<now, ctxVars, expVars, outVars, certifications, projects, callVars, order, cvVars>>

\* this.extractCertificationsAdvanced(context)
ExtractCertifications ==
  /\ pc = "certifications"
  /\ certifications' = extractCertificationsAdvanced(sections)
  /\ pc' = Following("certifications")
  /\ UNCHANGED <<now, ctxVars, expVars, outVars, languages, projects, callVars, order, cvVars>>

\* this.extractProjectsAdvanced(context)
ExtractProjects ==
  /\ pc = "projects"
  /\ projects' = extractProjectsAdvanced(sections)
  /\ pc' = Following("projects")
  /\ UNCHANGED <<now, ctxVars, expVars, outVars, languages, certifications, callVars, order, cvVars>>

\* the result object, of which the model keeps the fields computed from the
\* four extractors above
BuildResult ==
  /\ pc = "result"
  /\ result' =
       [confidence_score |->
          calculateConfidenceScore(personalInfo, experiences, education, skills),
        personal_info |-> personalInfo,
        education |-> education,
        experience |-> experiences,
        skills |-> skills,
        languages |-> languages,
        certifications |-> certifications,
        internships |-> projects,
        total_experience_years |-> calculateExperienceYears(experiences, now),
        seniority_level |->
          estimateSeniority(calculateExperienceYears(experiences, now), experiences,
                            education),
        industry |-> detectIndustry(skills, experiences),
        keywords |-> skills \o languages]
  /\ pc' = "done"
  /\ UNCHANGED <<now, ctxVars, expVars, personalInfo, education, skills, callVars, listVars, order, cvVars>>

\* parts.join(sep)
RECURSIVE JoinWith(_, _)
JoinWith(ws, sep) ==
  IF Len(ws) = 0 THEN <<>>
  ELSE IF Len(ws) = 1 THEN ws[1]
  ELSE ws[1] \o sep \o JoinWith(Tail(ws), sep)

\* generateAdvancedSummary(data); the metadata fields of data are fields of
\* the model's result record
generateAdvancedSummary(data) ==
  LET info == data.personal_info
      parts ==
        (IF info.full_name # <<>> /\ info.full_name # NameNotFound
         THEN <<info.full_name>> ELSE <<>>)
        \o (IF info.position # <<>> THEN <<<<"w","o","r","k","i","n","g"," ","a","s"," ">> \o info.position>>
            ELSE IF data.seniority_level # SeniorityLevel.entry
            THEN <<data.seniority_level \o <<" ","p","r","o","f","e","s","s","i","o","n","a","l">>>>
            ELSE <<>>)
        \o (IF data.industry # <<>> THEN <<<<"i","n"," ">> \o data.industry>> ELSE <<>>)
      summary == JoinWith(parts, <<" ">>)
      details ==
        (IF Len(data.experience) > 0
         THEN <<IntToStr(Len(data.experience)) \o <<" ","p","r","o","f","e","s","s","i","o","n","a","l"," ","e","x","p","e","r","i","e","n","c","e","(","s",")">>>> ELSE <<>>)
        \o (IF Len(data.education) > 0
            THEN <<IntToStr(Len(data.education)) \o <<" ","e","d","u","c","a","t","i","o","n","a","l"," ","q","u","a","l","i","f","i","c","a","t","i","o","n","(","s",")">>>> ELSE <<>>)
        \o (IF Len(data.skills) > 0
            THEN <<<<"S","k","i","l","l","e","d"," ","i","n",":"," ">>
                   \o JoinWith(SubSeq(data.skills, 1, IF Len(data.skills) < 6 THEN Len(data.skills) ELSE 6),
                               <<","," ">>)>>
            ELSE <<>>)
        \o (IF Len(data.languages) > 0
            THEN <<<<"L","a","n","g","u","a","g","e","s",":"," ">> \o JoinWith(data.languages, <<","," ">>)>> ELSE <<>>)
  IN summary \o <<"."," ">> \o JoinWith(details, <<"."," ">>) \o <<".">>

\* processCV without an LLM: aiSummary = this.generateAdvancedSummary(cvData)
GenerateAdvancedSummary ==
  /\ pc = "done"
  /\ aiSummary' = generateAdvancedSummary(result)
  /\ pc' = "summary"
  /\ UNCHANGED <<now, ctxVars, expVars, outVars, callVars, listVars, order, cvs,
                 extractedData, files, procs>>

\* performAdvancedExtraction returns
Return ==
  /\ pc = "done"
  /\ returned' = Append(returned, [text |-> text, from |-> began, to |-> now,
                                   result |-> result])
  /\ pc' = "idle"
  /\ UNCHANGED <<now, ctxVars, expVars, outVars, text, began, listVars, order, cvVars>>

\* the service is asked to extract the text t; every local of the invocation
\* is declared anew by the step that uses it
Invoke(t) ==
  /\ pc = "idle"
  /\ Len(returned) < MaxCalls
  /\ text' = t
  /\ began' = now
  /\ pc' = "start"
  /\ UNCHANGED <<now, ctxVars, expVars, outVars, returned, listVars, order, cvVars>>

\* the calendar year changes
Tick ==
  /\ now < ThisYear + MaxTicks
  /\ now' = now + 1
  /\ UNCHANGED <<pc, ctxVars, expVars, outVars, callVars, listVars, order, cvVars>>

NoResult ==
  [confidence_score |-> 0, personal_info |-> NoPersonalInfo, education |-> <<>>,
   experience |-> <<>>, skills |-> <<>>, languages |-> <<>>, certifications |-> <<>>,
   internships |-> <<>>, total_experience_years |-> 0, seniority_level |-> <<>>,
   industry |-> <<>>, keywords |-> <<>>]

\* a service instance on which nothing has run yet, in the year y
\* no CV has been uploaded and nothing is in flight
NoProcessing ==
  /\ aiSummary = <<>>
  /\ cvs = <<>>
  /\ extractedData = <<>>
  /\ files = {}
  /\ procs = <<>>

Idle(y) ==
  /\ pc = "idle"
  /\ text = <<>>
  /\ now = y
  /\ began = y
  /\ returned = <<>>
  /\ language = NoLanguage
  /\ sections = <<>>
  /\ lines = <<>>
  /\ personalInfo = NoPersonalInfo
  /\ expLines = <<>>
  /\ expI = 0
  /\ experiences = <<>>
  /\ education = <<>>
  /\ skills = <<>>
  /\ languages = <<>>
  /\ certifications = <<>>
  /\ projects = <<>>
  /\ order = SourceOrder
  /\ result = NoResult
  /\ NoProcessing

\* the state in which the first invocation, performAdvancedExtraction(t, ...),
\* begins in the year y, were the seven extractors called in the order o
StartOrdered(t, y, o) ==
  /\ pc = "start"
  /\ text = t
  /\ now = y
  /\ began = y
  /\ returned = <<>>
  /\ language = NoLanguage
  /\ sections = <<>>
  /\ lines = <<>>
  /\ personalInfo = NoPersonalInfo
  /\ expLines = <<>>
  /\ expI = 0
  /\ experiences = <<>>
  /\ education = <<>>
  /\ skills = <<>>
  /\ languages = <<>>
  /\ certifications = <<>>
  /\ projects = <<>>
  /\ order = o
  /\ result = NoResult
  /\ NoProcessing

\* the same with the calls in the order of the source
StartIn(t, y) == StartOrdered(t, y, SourceOrder)

Start(t) == StartIn(t, ThisYear)

(***************************************************************************)
(* Documents with one phone line.                                          *)
(***************************************************************************)
\* n digits: 1234567890123...
DigitString(n) ==
  [k \in 1..n |-> <<"0", "1", "2", "3", "4", "5", "6", "7", "8", "9">>[(k % 10) + 1]]

PhoneLine(label, plus, n, suffix) ==
  (IF label THEN <<"T", "e", "l", ":", " ">> ELSE <<>>)
    \o (IF plus THEN <<"+">> ELSE <<>>)
    \o DigitString(n)
    \o (IF suffix THEN <<"-", "2", "0", "2", "2">> ELSE <<>>)

PhoneTexts ==
  {<<PhoneLine(label, plus, n, suffix)>> :
     label \in BOOLEAN, plus \in BOOLEAN, n \in 0..MaxDigits, suffix \in BOOLEAN}

InitPhone == \E t \in PhoneTexts : Start(t)

SpecPhone == InitPhone /\ [][BuildExtractionContext \/ ExtractPersonalInfo]_vars

(***************************************************************************)
(* Documents of keywords, one word a line.                                 *)
(***************************************************************************)
Repeat(w, n) == [k \in 1..n |-> w]

\* nf words of the French list only, ne of the English list only, nb of both
\* ("master"), and one word of neither
KeywordText(nf, ne, nb) ==
  Repeat(<<"F","o","r","m","a","t","i","o","n">>, nf)
    \o Repeat(<<"s","k","i","l","l","s">>, ne)
    \o Repeat(<<"M","A","S","T","E","R">>, nb)
    \o << <<"s","k","i","l","l","s","e","t">> >>

KeywordTexts ==
  {KeywordText(nf, ne, nb) : nf \in 0..MaxKw, ne \in 0..MaxKw, nb \in 0..1}

\* and the empty string, whose split is one empty line
InitLang == \E t \in KeywordTexts \cup {<< <<>> >>} : Start(t)

SpecLang == InitLang /\ [][BuildExtractionContext]_vars

(***************************************************************************)
(* Documents of section headers.                                           *)
(***************************************************************************)
HeaderLines ==
  { <<"E","X","P","E","R","I","E","N","C","E">>,
    <<"E","D","U","C","A","T","I","O","N">>,
    <<"S","k","i","l","l","s">>,
    <<"E","D","U","C","A","T","I","O","N"," ","A","N","D"," ","S","K","I","L","L","S">>,
    <<"J","o","h","n">> }

RECURSIVE SeqsUpTo(_, _)
SeqsUpTo(S, n) ==
  IF n = 0 THEN {<<>>}
  ELSE LET shorter == SeqsUpTo(S, n - 1)
       IN shorter \cup {Append(q, x) : q \in shorter, x \in S}

HeaderTexts == SeqsUpTo(HeaderLines, MaxSecLines)

InitSections == \E t \in HeaderTexts : Start(t)

SpecSections == InitSections /\ [][BuildExtractionContext]_vars

(***************************************************************************)
(* Documents with an experience section.                                   *)
(***************************************************************************)
SampleLine ==
  [header |-> <<"E","X","P","E","R","I","E","N","C","E">>,
   pipe |-> <<"S","o","f","t","w","a","r","e"," ","E","n","g","i","n","e","e","r"," ","|"," ","A","c","m","e"," ","C","o","r","p"," ","|"," ","N","Y","C">>,
   closed |-> <<"2","0","1","9"," ","-"," ","2","0","2","2">>,
   openYear |-> <<"2","0","1","8"," ","-"," ","P","r","e","s","e","n","t">>,
   openSlash |-> <<"0","3","/","2","0","1","8"," ","-"," ","n","o","w">>,
   openMonth |-> <<"J","a","n"," ","2","0","1","8"," ","-"," ","P","r","e","s","e","n","t">>,
   openMonthFrench |-> <<"m","a","r","s"," ","2","0","1","9"," ","-"," ","a","c","t","u","e","l">>,
   bullet |-> <<"-"," ","B","u","i","l","t"," ","s","c","a","l","a","b","l","e"," ","A","P","I","s">>]

ExperienceLines ==
  {SampleLine.pipe, SampleLine.closed, SampleLine.openYear, SampleLine.openSlash, SampleLine.openMonth,
   SampleLine.openMonthFrench, SampleLine.bullet}

ExperienceTexts ==
  {<<SampleLine.header>> \o body : body \in SeqsUpTo(ExperienceLines, MaxExpLines)}
    \cup {<<SampleLine.pipe, SampleLine.closed>>}

InitExperience == \E t \in ExperienceTexts, y \in {ThisYear, ThisYear + 1} : StartIn(t, y)

NextExperience ==
  \/ BuildExtractionContext
  \/ ExtractPersonalInfo
  \/ ExtractExperienceBegin
  \/ ExperienceLoop
  \/ ExperienceReturn

SpecExperience == InitExperience /\ [][NextExperience]_vars

(***************************************************************************)
(* Whole documents: each part is there or not.                             *)
(***************************************************************************)
DocumentPart ==
  [name |-> <<<<"J","O","H","N"," ","S","M","I","T","H">>>>,
   email |-> <<<<"j","o","h","n",".","s","m","i","t","h","@","e","x","a","m","p","l","e",".","c","o","m">>>>,
   phone |-> <<<<"+","1","2","3","4","5","6","7","8","9","0">>>>,
   experience |-> <<SampleLine.header, SampleLine.pipe, SampleLine.closed, SampleLine.bullet>>,
   education |-> <<<<"E","D","U","C","A","T","I","O","N">>, <<"M","a","s","t","e","r"," ","o","f"," ","S","c","i","e","n","c","e"," ","U","n","i","v","e","r","s","i","t","y"," ","o","f"," ","X"," ","2","0","1","0"," ","-"," ","2","0","1","2">>>>,
   fewSkills |-> <<<<"S","K","I","L","L","S">>, <<"J","a","v","a",","," ","P","y","t","h","o","n">>>>,
   manySkills |-> <<<<"S","K","I","L","L","S">>, <<"J","a","v","a",","," ","P","y","t","h","o","n",","," ","R","e","a","c","t",","," ","D","o","c","k","e","r",","," ","G","i","t",","," ","A","W","S">>>>]

\* text.split('\n') of the empty string
EmptyString == << <<>> >>

Optional(present, part) == IF present THEN DocumentPart[part] ELSE <<>>

Document(n, e, p, x, d, s) ==
  IF ~(n \/ e \/ p \/ x \/ d) /\ s = "none" THEN EmptyString
  ELSE Optional(n, "name") \o Optional(e, "email") \o Optional(p, "phone")
         \o Optional(x, "experience") \o Optional(d, "education")
         \o (IF s = "none" THEN <<>> ELSE DocumentPart[s])

Documents ==
  {Document(n, e, p, x, d, s) :
     n \in BOOLEAN, e \in BOOLEAN, p \in BOOLEAN, x \in BOOLEAN, d \in BOOLEAN,
     s \in {"none", "fewSkills", "manySkills"}}

InitPipeline == \E t \in Documents : Start(t)

NextPipeline ==
  \/ BuildExtractionContext
  \/ ExtractPersonalInfo
  \/ ExtractExperienceBegin
  \/ ExperienceLoop
  \/ ExperienceReturn
  \/ ExtractEducation
  \/ ExtractSkills
  \/ ExtractLanguages
  \/ ExtractCertifications
  \/ ExtractProjects
  \/ BuildResult

SpecPipeline == InitPipeline /\ [][NextPipeline]_vars

(***************************************************************************)
(* One service instance asked for several extractions while the years      *)
(* pass.                                                                   *)
(***************************************************************************)
ServiceTexts ==
  {<<SampleLine.header, SampleLine.openSlash>>, DocumentPart.experience}

InitService == Idle(ThisYear)

NextService ==
  \/ \E t \in ServiceTexts : Invoke(t)
  \/ BuildExtractionContext
  \/ ExtractPersonalInfo
  \/ ExtractExperienceBegin
  \/ ExperienceLoop
  \/ ExperienceReturn
  \/ ExtractEducation
  \/ ExtractSkills
  \/ ExtractLanguages
  \/ ExtractCertifications
  \/ ExtractProjects
  \/ BuildResult
  \/ Return
  \/ Tick

SpecService == InitService /\ [][NextService]_vars

(***************************************************************************)
(* Claims.                                                                 *)
(***************************************************************************)
PersonalInfoDone == pc \notin {"start", "personal"}
ContextBuilt == pc # "start"

AllDigits(s) == \A k \in 1..Len(s) : IsDigit(s[k])
DigitCount(s) == Cardinality({k \in 1..Len(s) : IsDigit(s[k])})
PlusLine == <<"+", "1", "2", "3", "4", "5", "6", "7", "8", "9", "0">>

\* C2: the extracted phone is empty or made of digits only, and the line
\* "+1234567890" gives the phone "1234567890".
C2_PhoneDigitsOnly ==
  PersonalInfoDone =>
    /\ AllDigits(personalInfo.phone)
    /\ (text = <<PlusLine>> => personalInfo.phone = Tail(PlusLine))

\* C3: when the only digit run of the document has n digits and no -NNNN
\* follows it, the phone is non-empty exactly when 10 <= n <= 15.
C3_PhoneLengthBoundary ==
  (PersonalInfoDone /\ ~Contains(text[1], <<"-">>)) =>
    (personalInfo.phone # <<>> <=> (10 <= DigitCount(text[1]) /\ DigitCount(text[1]) <= 15))

\* the number of lines of t that are, ignoring case, a word of the list kws
LinesAmong(t, kws) ==
  Cardinality({k \in 1..Len(t) :
                 \E w \in 1..Len(kws) : ToLowerCase(t[k]) = kws[w]})

\* C8: with frenchScore and englishScore the numbers of French and English
\* keywords of the text, code is fr exactly when frenchScore > 1.5 *
\* englishScore, en exactly when that fails and englishScore > 1.5 *
\* frenchScore, and mixed otherwise.
C8_LanguageCodeMargin ==
  ContextBuilt =>
    LET f == LinesAmong(text, frenchKeywords)
        e == LinesAmong(text, englishKeywords)
    IN /\ language.frenchScore = f
       /\ language.englishScore = e
       /\ (language.code = "fr" <=> 2 * f > 3 * e)
       /\ (language.code = "en" <=> (~(2 * f > 3 * e) /\ 2 * e > 3 * f))
       /\ (language.code = "mixed" <=> (~(2 * f > 3 * e) /\ ~(2 * e > 3 * f)))
       /\ ((f = 10 /\ e = 3) => language.code = "fr")
       /\ ((f = 10 /\ e = 8) => language.code = "mixed")

\* scores 10 and 3 are reached, and give fr
C8_Witness ==
  /\ ContextBuilt
  /\ language.frenchScore = 10
  /\ language.englishScore = 3
  /\ language.code = "fr"

ZeroScores ==
  /\ ContextBuilt
  /\ LinesAmong(text, frenchKeywords) = 0
  /\ LinesAmong(text, englishKeywords) = 0
  /\ language.frenchScore = 0
  /\ language.englishScore = 0

\* C9 as stated: a text without any keyword gets confidence 0.5 and code en.
C9_ZeroScoresEnglish ==
  ZeroScores => (language.confidence = <<1, 2>> /\ language.code = "en")

\* C9 as amended: a text without any keyword gets confidence 0.5 and code
\* mixed.
C9_ZeroScoresMixed ==
  ZeroScores => (language.confidence = <<1, 2>> /\ language.code = "mixed")

\* a text of one word that is no keyword has been classified
C9_Witness ==
  /\ ZeroScores
  /\ Len(text) = 1
  /\ language.code = "mixed"

\* the section names in an order of non-decreasing start line
SpanOrders ==
  LET D == DOMAIN sections
      n == Cardinality(D)
  IN {f \in [1..n -> D] :
        /\ \A a, b \in 1..n : a # b => f[a] # f[b]
        /\ \A a, b \in 1..n : a < b => sections[f[a]].start <= sections[f[b]].start}

\* C4: the spans of the section map, ordered by start line, are contiguous:
\* each span ends where the next starts and the last ends at the line count.
C4_SectionsContiguous ==
  (ContextBuilt /\ DOMAIN sections # {}) =>
    \E f \in SpanOrders :
      LET n == Cardinality(DOMAIN sections)
      IN /\ \A a \in 1..(n - 1) : sections[f[a]].end = sections[f[a + 1]].start
         /\ sections[f[n]].end = Len(text)

ExperienceDone == pc \notin {"start", "personal", "experience", "experienceLoop"}

\* the spec's scenario: the header, the pipe line, the date range, then bullets
ScenarioText ==
  /\ Len(text) >= 3
  /\ text[1] = SampleLine.header
  /\ text[2] = SampleLine.pipe
  /\ text[3] = SampleLine.closed
  /\ \A k \in 4..Len(text) : text[k] = SampleLine.bullet

\* C1: a section made of its header, a line P | C | L, a line Y1 - Y2 and
\* bullets gives exactly one entry, with position P, company C, location L,
\* startDate Y1, endDate Y2, duration "(Y2-Y1) years" and the bullet text in
\* its description.
C1_PipeLineEntry ==
  (ExperienceDone /\ ScenarioText) =>
    /\ Len(experiences) = 1
    /\ experiences[1].position = <<"S","o","f","t","w","a","r","e"," ","E","n","g","i","n","e","e","r">>
    /\ experiences[1].company = <<"A","c","m","e"," ","C","o","r","p">>
    /\ experiences[1].location = <<"N","Y","C">>
    /\ experiences[1].startDate = <<"2","0","1","9">>
    /\ experiences[1].endDate = <<"2","0","2","2">>
    /\ experiences[1].duration = <<"3"," ","y","e","a","r","s">>
    /\ (Len(text) >= 4 => Contains(experiences[1].description, StripBullet(SampleLine.bullet)))

\* the open-ended lines of the documents and the start year each one states
OpenLineYear(line) ==
  IF line = SampleLine.openYear THEN 2018
  ELSE IF line = SampleLine.openSlash THEN 2018
  ELSE IF line = SampleLine.openMonth THEN 2018
  ELSE IF line = SampleLine.openMonthFrench THEN 2019
  ELSE 0

\* C5: an open-ended date range of any of the three families found in year Y
\* gives an entry with startDate S, endDate "Present" and duration
\* "(Y-S) years", which adds Y-S to total_experience_years.
C5_OpenEndedEntry ==
  (ExperienceDone /\ Len(text) = 2 /\ text[1] = SampleLine.header
     /\ OpenLineYear(text[2]) > 0) =>
    /\ Len(experiences) = 1
    /\ experiences[1].startDate = NatToStr(OpenLineYear(text[2]))
    /\ experiences[1].endDate = PresentWord
    /\ experiences[1].duration
         = NatToStr(now - OpenLineYear(text[2])) \o <<" ","y","e","a","r","s">>
    /\ calculateExperienceYears(experiences, now) = now - OpenLineYear(text[2])

\* the lines of the section that hold a date range of one of the families
DateLineCount ==
  Cardinality({k \in 1..Len(expLines) :
                 expLines[k] \in {SampleLine.closed, SampleLine.openYear, SampleLine.openSlash,
                                  SampleLine.openMonth, SampleLine.openMonthFrench}})

\* C6: the loop handles every line of the section once and in order: each
\* iteration moves to the immediately following line, and the entries
\* returned are as many as the lines that hold a date range.
C6_EveryLineOnce ==
  /\ [][(pc = "experienceLoop" /\ pc' = "experienceLoop") => expI' = expI + 1]_vars
  /\ []((ExperienceDone /\ "experience" \in DOMAIN sections)
          => Len(experiences) = DateLineCount)

\* C7: the confidence score of every result lies between 0 and 0.95 (95
\* hundredths), and for the empty string the score is 0, the name is "Name Not
\* Found" and every other field of personal_info is empty or null.
C7_ConfidenceRange ==
  pc = "done" =>
    /\ 0 <= result.confidence_score
    /\ result.confidence_score <= 95
    /\ text = EmptyString =>
         /\ result.confidence_score = 0
         /\ result.personal_info = [NoPersonalInfo EXCEPT !.full_name = NameNotFound]

\* a result whose six conditions all hold: the points add up to 100 and the
\* score is the cap
C7_Witness ==
  /\ pc = "done"
  /\ confidencePoints(personalInfo, experiences, education, skills) = 100
  /\ result.confidence_score = 95

Calls == 1..Len(returned)
InOneYear(a) == returned[a].from = returned[a].to

\* C10 as stated: two invocations on the same text return the same result,
\* whenever they run.
C10_SameTextSameResult ==
  \A a, b \in Calls :
    returned[a].text = returned[b].text => returned[a].result = returned[b].result

\* C10 as amended: two invocations on the same text that run within the same
\* calendar year return the same result, whatever ran on the service before
\* or between them.
C10_SameYearSameResult ==
  \A a, b \in Calls :
    (/\ returned[a].text = returned[b].text
     /\ InOneYear(a) /\ InOneYear(b)
     /\ returned[a].from = returned[b].from)
      => returned[a].result = returned[b].result

\* the same text, with an open-ended entry, extracted twice in one year with
\* another document extracted in between
C10_Witness ==
  \E a, b \in Calls :
    /\ a + 1 < b
    /\ returned[a].text = returned[b].text
    /\ returned[a + 1].text # returned[a].text
    /\ Len(returned[a + 1].result.experience) > 0
    /\ InOneYear(a) /\ InOneYear(b)
    /\ returned[a].from = returned[b].from
    /\ \E k \in 1..Len(returned[b].result.experience) :
         returned[b].result.experience[k].endDate = PresentWord

(***************************************************************************)
(* Documents of one section: a header and lines with and without dates.    *)
(***************************************************************************)
SectionHeader ==
  {SampleLine.header, <<"E","D","U","C","A","T","I","O","N">>, <<"C","E","R","T","I","F","I","C","A","T","I","O","N","S">>, <<"P","R","O","J","E","C","T","S">>}

BodyLine == {SampleLine.openYear, SampleLine.openMonth, SampleLine.closed, SampleLine.bullet}

SectionTexts == {<<h>> \o b : h \in SectionHeader, b \in SeqsUpTo(BodyLine, MaxBodyLines)}

InitTermination == \E t \in SectionTexts : Start(t)

\* a step of NextPipeline that changes the state is possible: the invocation
\* has not returned and, inside the while loop, the iteration at hand pushes
\* an entry or leaves the index changed
Runnable ==
  /\ pc # "done"
  /\ (pc = "experienceLoop" /\ expI < Len(expLines))
       => WhileIteration(expLines, expI, now) # [i |-> expI, found |-> <<>>]

\* The engine is synchronous: an invocation takes its next step.  This is
\* weak fairness of NextPipeline with ENABLED <<NextPipeline>>_vars written
\* out as Runnable.
Progress == []<>~Runnable \/ []<><<NextPipeline>>_vars

SpecTermination ==
  InitTermination /\ [][NextPipeline]_vars /\ WF_vars(ExperienceReturn) /\ Progress

\* C11: performAdvancedExtraction returns a result on every text: each
\* iteration of the experience while loop ends on a larger index, however the
\* walks and the "i++; continue" of a line went, every extractor returns, and
\* the name of the result is a name or "Name Not Found".
C11_Terminates ==
  /\ <>(pc = "done")
  /\ [][pc = "experienceLoop" /\ pc' = "experienceLoop" => expI' > expI]_vars
  /\ [](pc = "done" => result.personal_info.full_name # <<>>)

\* a returned result of an experience section whose last line ran both the
\* "i++; continue" of the second pattern and the closing i++, after an entry
\* was pushed for it
C11_Witness ==
  /\ pc = "done"
  /\ expLines # <<>>
  /\ expI > Len(expLines)
  /\ Len(result.experience) > 0
  /\ result.personal_info.full_name = NameNotFound

(***************************************************************************)
(* Documents without any section header.                                   *)
(***************************************************************************)
PlainLine ==
  [name |-> DocumentPart.name[1],
   position |-> <<"S","o","f","t","w","a","r","e"," ","E","n","g","i","n","e","e","r">>,
   closed |-> SampleLine.closed,
   bullet |-> SampleLine.bullet,
   email |-> DocumentPart.email[1],
   phone |-> DocumentPart.phone[1],
   location |-> <<"P","a","r","i","s",","," ","F","r","a","n","c","e">>]

PlainOrder == <<"name", "position", "closed", "bullet", "email", "phone", "location">>

\* the lines of PlainOrder whose names are in S, in that order
PlainText(S) ==
  IF S = {} THEN EmptyString
  ELSE LET chosen == SelectSeq(PlainOrder, LAMBDA n : n \in S)
       IN [k \in 1..Len(chosen) |-> PlainLine[chosen[k]]]

PlainTexts == {PlainText(S) : S \in SUBSET DOMAIN PlainLine}

InitPlain == \E t \in PlainTexts : Start(t)

\* the steps of an invocation on a document without an experience section:
\* the while loop is not entered
NextNoExperience ==
  \/ BuildExtractionContext
  \/ ExtractPersonalInfo
  \/ ExtractExperienceBegin
  \/ ExtractEducation
  \/ ExtractSkills
  \/ ExtractLanguages
  \/ ExtractCertifications
  \/ ExtractProjects
  \/ BuildResult

SpecPlain == InitPlain /\ [][NextNoExperience]_vars

HasLine(l) == \E k \in 1..Len(lines) : lines[k] = l

\* C12: a document none of whose lines is a section header gives no
\* experience, education, certification or project, and its name, position,
\* e-mail and phone are still found, wherever their lines are, and its
\* location holds the city and country of its location line.
C12_NoSections ==
  (pc = "done" /\ DOMAIN sections = {}) =>
    /\ result.experience = <<>>
    /\ result.education = <<>>
    /\ result.certifications = <<>>
    /\ result.internships = <<>>
    /\ HasLine(PlainLine.name) => result.personal_info.full_name = <<"J","o","h","n"," ","S","m","i","t","h">>
    /\ HasLine(PlainLine.position) => result.personal_info.position = PlainLine.position
    /\ HasLine(PlainLine.email) => result.personal_info.email = PlainLine.email
    /\ HasLine(PlainLine.phone) => result.personal_info.phone = PlainLine.phone
    /\ HasLine(PlainLine.location)
         => Contains(result.personal_info.location, PlainLine.location)

\* the result of a document with a date-range line, a bulleted line and all
\* five personal lines, and no header
C12_Witness ==
  /\ pc = "done"
  /\ DOMAIN sections = {}
  /\ Len(lines) = 7
  /\ result.experience = <<>>
  /\ result.certifications = <<>>
  /\ result.personal_info.email = PlainLine.email
  /\ result.personal_info.location = PlainLine.location

(***************************************************************************)
(* Documents that repeat skill keywords in several letter cases.           *)
(***************************************************************************)
SkillLine ==
  {<<"S","K","I","L","L","S">>, <<"P","y","t","h","o","n",","," ","p","y","t","h","o","n",","," ","P","Y","T","H","O","N">>, <<"K","O","T","L","I","N"," ","a","n","d"," ","K","o","t","l","i","n">>, <<"s","w","i","f","t"," ","S","w","i","f","t">>,
   <<"I"," ","w","r","o","t","e"," ","p","y","t","h","o","n"," ","a","n","d"," ","k","o","t","l","i","n"," ","c","o","d","e">>}

SkillTexts == SeqsUpTo(SkillLine, MaxSkillLines) \ {<<>>}

InitSkills == \E t \in SkillTexts : Start(t)

SpecSkills == InitSkills /\ [][NextNoExperience]_vars

\* C13: no two entries of the extracted skill list are equal under
\* case-insensitive comparison, however often and in whichever case and place
\* the document names a skill.
C13_SkillsOnce ==
  pc = "done" =>
    \A a, b \in 1..Len(result.skills) :
      a # b => ToLowerCase(result.skills[a]) # ToLowerCase(result.skills[b])

\* a result with Python and Kotlin once each, of a document that names them in
\* three cases inside the skills section and again outside it
C13_Witness ==
  /\ pc = "done"
  /\ "skills" \in DOMAIN sections
  /\ sections["skills"].start > 0
  /\ Len(lines) = 3
  /\ HasLine(<<"P","y","t","h","o","n",","," ","p","y","t","h","o","n",","," ","P","Y","T","H","O","N">>)
  /\ HasLine(<<"I"," ","w","r","o","t","e"," ","p","y","t","h","o","n"," ","a","n","d"," ","k","o","t","l","i","n"," ","c","o","d","e">>)
  /\ result.skills = <<<<"P","y","t","h","o","n">>, <<"K","o","t","l","i","n">>>>

(***************************************************************************)
(* The seven extractors called in other orders.                            *)
(***************************************************************************)
ListPart ==
  [languages |-> <<<<"L","A","N","G","U","A","G","E","S">>, <<"E","n","g","l","i","s","h"," ","a","n","d"," ","F","r","e","n","c","h">>>>,
   certifications |-> <<<<"C","E","R","T","I","F","I","C","A","T","I","O","N","S">>, <<"-"," ","A","W","S"," ","C","e","r","t","i","f","i","e","d"," ","D","e","v","e","l","o","p","e","r"," ","2","0","2","1">>>>,
   projects |-> <<<<"P","R","O","J","E","C","T","S">>, <<"P","o","r","t","f","o","l","i","o"," ","s","i","t","e"," ","2","0","2","1">>, <<"-"," ","B","u","i","l","t"," ","w","i","t","h"," ","R","e","a","c","t">>>>]

OrderTexts ==
  { DocumentPart.name \o DocumentPart.email \o DocumentPart.experience
      \o DocumentPart.education \o DocumentPart.manySkills \o ListPart.languages
      \o ListPart.certifications \o ListPart.projects,
    DocumentPart.name \o DocumentPart.experience \o DocumentPart.fewSkills
      \o ListPart.languages,
    DocumentPart.education \o ListPart.certifications \o ListPart.projects }

Rotation(k) == [n \in 1..Len(SourceOrder) |-> SourceOrder[((n + k - 1) % Len(SourceOrder)) + 1]]

Reverse(s) == [n \in 1..Len(s) |-> s[Len(s) + 1 - n]]

\* the rotations of the order of the source, forwards and backwards
Orders ==
  {Rotation(k) : k \in 0..(Len(SourceOrder) - 1)}
    \cup {Reverse(Rotation(k)) : k \in 0..(Len(SourceOrder) - 1)}

InitOrder == \E t \in OrderTexts, o \in Orders : StartOrdered(t, ThisYear, o)

SpecOrder == InitOrder /\ [][NextPipeline]_vars

\* C14: once the context is built no step changes its lines, sections or
\* language, and when the last extractor has returned each of the seven
\* fragments is what its extractor computes from that context alone, whatever
\* the order of the calls was.
C14_ContextUnchanged ==
  [][/\ pc # "start" => UNCHANGED ctxVars
     /\ pc' = "result" =>
          /\ personalInfo' = extractPersonalInfo(lines, language)
          /\ experiences' =
               (IF "experience" \in DOMAIN sections
                THEN ExperiencesFrom(TrimmedLines(sections["experience"].content), 0, now)
                ELSE <<>>)
          /\ education' = extractEducationAdvanced(sections, language.code)
          /\ skills' = extractSkillsAdvanced(sections, lines)
          /\ languages' = extractLanguagesAdvanced(sections, lines)
          /\ certifications' = extractCertificationsAdvanced(sections)
          /\ projects' = extractProjectsAdvanced(sections)]_vars

\* a result built after the extractors ran backwards, projects first, each of
\* them having found something
C14_Witness ==
  /\ pc = "done"
  /\ order = Reverse(SourceOrder)
  /\ result.personal_info.full_name # NameNotFound
  /\ \A f \in {"experience", "education", "skills", "languages", "certifications",
              "internships"} : result[f] # <<>>

(***************************************************************************)
(* Documents of lines that are names for one phase, or for none.           *)
(***************************************************************************)
\* phase is the phase a line is a candidate of (0: of none), name the name
\* that phase returns for it
NameSample ==
  { [line |-> <<"J","O","H","N"," ","S","M","I","T","H">>, phase |-> 1, name |-> <<"J","o","h","n"," ","S","m","i","t","h">>],
    [line |-> <<"A","N","N","A"," ","M","A","R","I","A"," ","L","E","E">>, phase |-> 1, name |-> <<"A","n","n","a"," ","M","a","r","i","a"," ","L","e","e">>],
    [line |-> <<"M","a","r","y"," ","A","n","n"," ","S","m","i","t","h">>, phase |-> 2, name |-> <<"M","a","r","y"," ","A","n","n"," ","S","m","i","t","h">>],
    [line |-> <<"J","e","a","n","-","P","i","e","r","r","e"," ","D","u","p","o","n","t">>, phase |-> 2, name |-> <<"J","e","a","n","-","P","i","e","r","r","e"," ","D","u","p","o","n","t">>],
    [line |-> <<"A","l","i","c","e"," ","B","."," ","W","o","n","d","e","r">>, phase |-> 3, name |-> <<"A","l","i","c","e"," ","B","."," ","W","o","n","d","e","r">>],
    [line |-> <<"T","o","m"," ","O","'","N","e","i","l">>, phase |-> 3, name |-> <<"T","o","m"," ","O","'","N","e","i","l">>],
    [line |-> <<"h","e","l","l","o"," ","w","o","r","l","d">>, phase |-> 0, name |-> <<>>] }

NameTexts == SeqsUpTo({s.line : s \in NameSample}, MaxNameLines) \ {<<>>}

InitName == \E t \in NameTexts : Start(t)

SpecName == InitName /\ [][BuildExtractionContext \/ ExtractPersonalInfo]_vars

SampleOf(line) == CHOOSE s \in NameSample : s.line = line

\* the lines of ls that are candidates of the phase ph
CandidateLines(ls, ph) == {k \in 1..Len(ls) : SampleOf(ls[k]).phase = ph}

\* the lowest phase that has a candidate among ls, 0 if none has
LowestPhase(ls) ==
  IF \A ph \in 1..3 : CandidateLines(ls, ph) = {} THEN 0
  ELSE Min({ph \in 1..3 : CandidateLines(ls, ph) # {}})

\* C15: the name is the candidate of the lowest-numbered phase that has one,
\* taken from the earliest line that qualifies for that phase, and it is
\* "Name Not Found" when no phase has a candidate, and then only.
C15_LowestPhaseWins ==
  PersonalInfoDone =>
    /\ LowestPhase(lines) = 0 <=> personalInfo.full_name = NameNotFound
    /\ LowestPhase(lines) # 0 =>
         personalInfo.full_name
           = SampleOf(lines[Min(CandidateLines(lines, LowestPhase(lines)))]).name

\* an ALL-CAPS name on the third line returned although the first line is a
\* candidate of Phase 2 and the second one of Phase 3
C15_Witness ==
  /\ PersonalInfoDone
  /\ Len(lines) = 3
  /\ SampleOf(lines[1]).phase = 2
  /\ SampleOf(lines[2]).phase = 3
  /\ lines[3] = <<"J","O","H","N"," ","S","M","I","T","H">>
  /\ personalInfo.full_name = <<"J","o","h","n"," ","S","m","i","t","h">>

(***************************************************************************)
(* Documents of one ALL-CAPS line of 2 to 4 words.                         *)
(***************************************************************************)
\* the bounds of line.length in Phase 1b
MinCapsLength == 8
MaxCapsLength == 50

\* a line of n characters: w - 1 words "AB" and a last word of the letter A,
\* ending in É when accent holds
CapsLine(n, w, accent) ==
  [p \in 1..n |->
     IF p <= 3 * (w - 1) THEN <<"A", "B", " ">>[((p - 1) % 3) + 1]
     ELSE IF p = n /\ accent THEN "E'"
     ELSE "A"]

CapsTexts ==
  {<<CapsLine(x[1], x[2], x[3])>> :
     x \in {y \in (MinCapsLength..MaxCapsLength) \X (2..4) \X BOOLEAN : 3 * y[2] - 1 <= y[1]}}

InitCaps == \E t \in CapsTexts : Start(t)

SpecCaps == InitCaps /\ [][BuildExtractionContext \/ ExtractPersonalInfo]_vars

\* the line with every letter that does not begin a word in lower case
InTitleCase(line) ==
  [p \in 1..Len(line) |->
     IF p = 1 \/ line[p - 1] = " " THEN line[p] ELSE ToLowerChar(line[p])]

\* C16: an ALL-CAPS line of 2 to 4 words and of any length from 8 to 50, with
\* nothing in it that the exclusions name, is returned as the name in title
\* case.
C16_AllCapsName ==
  PersonalInfoDone => personalInfo.full_name = InTitleCase(lines[1])

\* C16 for the lines the exclusion of long ALL-CAPS strings lets through:
\* those shorter than 20 characters or holding a letter outside A-Z
C16_ShortOrAccented ==
  (PersonalInfoDone /\ (Len(lines[1]) < 20 \/ lines[1][Len(lines[1])] = "E'"))
    => personalInfo.full_name = InTitleCase(lines[1])

\* C16 fails on every line of 20 characters or more made of A-Z and spaces
C16_LongAsciiLost ==
  (PersonalInfoDone /\ Len(lines[1]) >= 20 /\ lines[1][Len(lines[1])] # "E'")
    => personalInfo.full_name = NameNotFound

(***************************************************************************)
(* Experience and education lists for estimateSeniority.                   *)
(***************************************************************************)
\* positions with and without a lead-role keyword
PositionSample ==
  { [position |-> <<"S","o","f","t","w","a","r","e"," ","D","e","v","e","l","o","p","e","r">>, lead |-> FALSE],
    [position |-> <<"L","e","a","d"," ","D","e","v","e","l","o","p","e","r">>, lead |-> TRUE],
    [position |-> <<"S","E","N","I","O","R"," ","E","N","G","I","N","E","E","R">>, lead |-> TRUE],
    [position |-> <<"S","o","l","u","t","i","o","n","s"," ","A","r","c","h","i","t","e","c","t">>, lead |-> TRUE] }

\* education lists with and without an advanced degree
EducationSample ==
  { [education |-> <<>>, advanced |-> FALSE],
    [education |-> <<[degree |-> <<"B","a","c","h","e","l","o","r"," ","o","f"," ","S","c","i","e","n","c","e">>, institution |-> <<"M","I","T">>,
                      field_of_study |-> "null", start_date |-> "null", end_date |-> "null"]>>,
     advanced |-> FALSE],
    [education |-> <<[degree |-> <<"M","a","s","t","e","r"," ","o","f"," ","S","c","i","e","n","c","e">>, institution |-> <<"M","I","T">>,
                      field_of_study |-> "null", start_date |-> "null", end_date |-> "null"]>>,
     advanced |-> TRUE],
    [education |-> <<[degree |-> <<"L","i","c","e","n","c","e">>, institution |-> <<>>,
                      field_of_study |-> "null", start_date |-> "null", end_date |-> "null"],
                     [degree |-> <<"D","i","p","l","o^","m","e"," ","d","'","I","N","G","E'","N","I","E","U","R">>, institution |-> <<"E","M","I">>,
                      field_of_study |-> "null", start_date |-> "null", end_date |-> "null"]>>,
     advanced |-> TRUE] }

\* the entry of a range that ended this year after n years
EntryOfYears(position, n) ==
  [position |-> position, company |-> <<>>, location |-> <<>>,
   startDate |-> IntToStr(ThisYear - n), endDate |-> IntToStr(ThisYear),
   description |-> <<>>, duration |-> IntToStr(n) \o <<" ","y","e","a","r","s">>]

ExperienceLists ==
  {<<>>} \cup {<<EntryOfYears(p.position, n)>> : p \in PositionSample, n \in 0..MaxYears}

\* the extractors have returned ex and ed, and nothing else
InitSeniority ==
  \E ex \in ExperienceLists, s \in EducationSample :
    /\ pc = "result"
    /\ text = EmptyString
    /\ now = ThisYear
    /\ began = ThisYear
    /\ returned = <<>>
    /\ language = detectLanguage(EmptyString)
    /\ sections = <<>>
    /\ lines = <<>>
    /\ personalInfo = [NoPersonalInfo EXCEPT !.full_name = NameNotFound]
    /\ expLines = <<>>
    /\ expI = 0
    /\ experiences = ex
    /\ education = s.education
    /\ skills = <<>>
    /\ languages = <<>>
    /\ certifications = <<>>
    /\ projects = <<>>
    /\ order = SourceOrder
    /\ NoProcessing
    /\ result = NoResult

SpecSeniority == InitSeniority /\ [][BuildResult]_vars

HasLead == \E k \in 1..Len(experiences) : \E p \in PositionSample :
             p.lead /\ p.position = experiences[k].position

HasAdvanced == \E s \in EducationSample : s.advanced /\ s.education = education

\* C17: the seniority level is Entry Level for no year and no education, else
\* Junior for less than 2 years without an advanced degree, else Mid-Senior
\* or Mid Level (with or without a lead role) below 5 years, else Senior or
\* Mid-Senior below 10 years, else Lead/Principal.
C17_SeniorityLevels ==
  pc = "done" =>
    result.seniority_level =
      (LET years == result.total_experience_years
       IN IF years = 0 /\ education = <<>> THEN <<"E","n","t","r","y"," ","L","e","v","e","l">>
          ELSE IF years < 2 /\ ~HasAdvanced THEN <<"J","u","n","i","o","r">>
          ELSE IF years < 5 THEN (IF HasLead THEN <<"M","i","d","-","S","e","n","i","o","r">> ELSE <<"M","i","d"," ","L","e","v","e","l">>)
          ELSE IF years < 10 THEN (IF HasLead THEN <<"S","e","n","i","o","r">> ELSE <<"M","i","d","-","S","e","n","i","o","r">>)
          ELSE <<"L","e","a","d","/","P","r","i","n","c","i","p","a","l">>)

\* one year of experience and an engineering degree: not Junior but Mid Level
C17_Witness ==
  /\ pc = "done"
  /\ result.total_experience_years = 1
  /\ HasAdvanced
  /\ ~HasLead
  /\ result.seniority_level = <<"M","i","d"," ","L","e","v","e","l">>

(***************************************************************************)
(* The duration of an entry and what the entry adds to the total.          *)
(***************************************************************************)
\* the integer N of the duration string "N years"
DurationYears(e) ==
  IF e.duration[1] = "-" THEN 0 - parseInt(Tail(e.duration)).n ELSE parseInt(e.duration).n

\* C18: the N of the duration "N years" of every extracted entry is what the
\* entry adds to total_experience_years, which is therefore the sum of the
\* durations and never negative.
C18_DurationIsCounted ==
  ExperienceDone =>
    /\ \A k \in 1..Len(experiences) :
         DurationYears(experiences[k]) = calculateExperienceYears(<<experiences[k]>>, now)
    /\ calculateExperienceYears(experiences, now) >= 0

(***************************************************************************)
(* Experience sections of pipe-delimited lines and date-range lines.       *)
(***************************************************************************)
PipeSample ==
  [first |-> <<"E","n","g","i","n","e","e","r"," ","O","n","e"," ","|"," ","A","l","p","h","a"," ","|"," ","P","a","r","i","s">>,
   second |-> <<"E","n","g","i","n","e","e","r"," ","T","w","o"," ","|"," ","B","e","t","a"," ","|"," ","L","y","o","n">>,
   earlier |-> <<"2","0","1","5"," ","-"," ","2","0","1","8">>]

PipeTexts ==
  {<<SampleLine.header>> \o body :
     body \in SeqsUpTo({PipeSample.first, PipeSample.second, PipeSample.earlier,
                        SampleLine.closed}, MaxPipeLines)}

InitPipes == \E t \in PipeTexts : Start(t)

SpecPipes == InitPipes /\ [][NextExperience]_vars

\* the indices (from 1) of the date-range lines of the section, and of the
\* pipe-delimited lines among the 5 lines before the line d
DateLines == {d \in 1..Len(expLines) : HasClosedRange(expLines[d])}

PipeLinesBefore(d) ==
  {n \in 1..(d - 1) : n >= d - 5 /\ Contains(expLines[n], <<"|">>)}

\* the date-range line of the k-th entry
DateLineOf(k) ==
  CHOOSE d \in DateLines : Cardinality({x \in DateLines : x <= d}) = k

\* C19: an entry whose date-range line has more than one pipe-delimited line
\* among the 5 lines before it takes its position, company and location from
\* the nearest of them.
C19_NearestPipeLine ==
  (ExperienceDone /\ Len(experiences) = Cardinality(DateLines)) =>
    \A k \in 1..Len(experiences) :
      Cardinality(PipeLinesBefore(DateLineOf(k))) > 1 =>
        LET nearest == expLines[Max(PipeLinesBefore(DateLineOf(k)))]
        IN /\ experiences[k].position = PipePart(nearest, 0)
           /\ experiences[k].company = PipePart(nearest, 1)
           /\ experiences[k].location = PipePart(nearest, 2)

\* what the code does instead: company and location are those of the
\* farthest pipe-delimited line of the window
C19_FarthestPipeLine ==
  (ExperienceDone /\ Len(experiences) = Cardinality(DateLines)) =>
    \A k \in 1..Len(experiences) :
      PipeLinesBefore(DateLineOf(k)) # {} =>
        LET farthest == expLines[Min(PipeLinesBefore(DateLineOf(k)))]
        IN /\ experiences[k].company = PipePart(farthest, 1)
           /\ experiences[k].location = PipePart(farthest, 2)

(***************************************************************************)
(* The description of an entry and the lines after its date-range line.    *)
(***************************************************************************)
\* a line on which one of the three date patterns matches
DateRangeLine(line) == \E k \in 0..2 : DateExec(k, line).matched

\* the indices (from 0) of the lines of the section that give an entry
EntryLines ==
  {i \in 0..(Len(expLines) - 1) : ExperienceIteration(expLines, i, now).found # <<>>}

\* the line of the k-th entry
EntryLineOf(k) ==
  CHOOSE i \in EntryLines : Cardinality({x \in EntryLines : x <= i}) = k

\* the indices (from 0) of the lines strictly between the line i and the next
\* date-range line or section header after it
LinesUntilNextDate(i) ==
  {j \in (i + 1)..(Len(expLines) - 1) :
     \A x \in (i + 1)..j :
       /\ ~DateRangeLine(expLines[x + 1])
       /\ ~\E w \in nextSectionWords : MatchAtCI(expLines[x + 1], 1, w)}

\* the description made of the lines of expLines at the indices of S, in order
RECURSIVE DescriptionOfLines(_)
DescriptionOfLines(S) ==
  IF S = {} THEN <<>>
  ELSE Trim(StripBullet(expLines[Min(S) + 1])) \o <<" ">> \o DescriptionOfLines(S \ {Min(S)})

\* C20: the description of an entry is made of at most 5 lines, all of them
\* strictly between the entry's date-range line and the next date-range line
\* (of any family) or section header.
C20_DescriptionBeforeNextDate ==
  (ExperienceDone /\ Len(experiences) = Cardinality(EntryLines)) =>
    \A k \in 1..Len(experiences) :
      \E S \in SUBSET LinesUntilNextDate(EntryLineOf(k)) :
        /\ Cardinality(S) <= 5
        /\ experiences[k].description = Trim(DescriptionOfLines(S))

\* the same with only the closed year ranges and the four headers the forward
\* walk tests for: this is what the code does
C20_DescriptionBeforeClosedRange ==
  (ExperienceDone /\ Len(experiences) = Cardinality(EntryLines)) =>
    \A k \in 1..Len(experiences) :
      \E S \in SUBSET {j \in (EntryLineOf(k) + 1)..(Len(expLines) - 1) :
                         \A x \in (EntryLineOf(k) + 1)..j :
                           /\ ~HasClosedRange(expLines[x + 1])
                           /\ ~\E w \in nextSectionWords : MatchAtCI(expLines[x + 1], 1, w)} :
        /\ Cardinality(S) <= 5
        /\ experiences[k].description = Trim(DescriptionOfLines(S))

(***************************************************************************)
(* Lines that match the header patterns of two categories, and headers     *)
(* that occur on several lines.                                            *)
(***************************************************************************)
\* the positions in SectionNames of the categories whose pattern matches the
\* line idx (from 0) of the text
CategoriesOfLine(idx) ==
  {k \in 1..Len(SectionNames) :
     PatternTest(sectionPatterns(language.code)[SectionNames[k]], text[idx + 1])}

\* the category SectionNames[k] has a section that starts at the line idx
StartsAt(k, idx) ==
  /\ SectionNames[k] \in DOMAIN sections
  /\ sections[SectionNames[k]].start = idx

\* C21: when a line matches the patterns of two categories, the one tested
\* later has no section starting at that line.
C21_FirstCategoryWins ==
  ContextBuilt =>
    \A idx \in 0..(Len(text) - 1) :
      \A k \in CategoriesOfLine(idx) :
        k # Min(CategoriesOfLine(idx)) => ~StartsAt(k, idx)

\* what the code does instead: on a line of two categories that is the last
\* line of both, the later one gets the span up to the next start and the
\* earlier one an empty span
C21_LaterCategoryWins ==
  ContextBuilt =>
    \A idx \in 0..(Len(text) - 1) :
      (/\ Cardinality(CategoriesOfLine(idx)) = 2
       /\ \A j \in (idx + 1)..(Len(text) - 1) :
            CategoriesOfLine(j) \cap CategoriesOfLine(idx) = {}) =>
        /\ StartsAt(Max(CategoriesOfLine(idx)), idx)
        /\ sections[SectionNames[Max(CategoriesOfLine(idx))]].end > idx
        /\ StartsAt(Min(CategoriesOfLine(idx)), idx)
        /\ sections[SectionNames[Min(CategoriesOfLine(idx))]].end = idx
        /\ sections[SectionNames[Min(CategoriesOfLine(idx))]].content = <<>>

\* the lines (from 0) that match the pattern of the category SectionNames[k]
LinesOfCategory(k) == {idx \in 0..(Len(text) - 1) : k \in CategoriesOfLine(idx)}

\* the lines (from 0) that match the pattern of some category
HeaderIndices == {idx \in 0..(Len(text) - 1) : CategoriesOfLine(idx) # {}}

\* C22: a category whose header occurs on several lines has one entry in the
\* section map, the span that starts at the last of these lines and runs to
\* the next header line or the end of the text.
C22_LastHeaderWins ==
  ContextBuilt =>
    \A k \in 1..Len(SectionNames) :
      Cardinality(LinesOfCategory(k)) > 1 =>
        LET last == Max(LinesOfCategory(k))
            later == {idx \in HeaderIndices : idx > last}
            end == IF later = {} THEN Len(text) ELSE Min(later)
        IN /\ SectionNames[k] \in DOMAIN sections
           /\ sections[SectionNames[k]].start = last
           /\ Cardinality(CategoriesOfLine(last)) = 1 =>
                /\ sections[SectionNames[k]].end = end
                /\ sections[SectionNames[k]].content = SubSeq(text, last + 1, end)

C22_Witness ==
  /\ ContextBuilt
  /\ Len(text) = 3
  /\ LinesOfCategory(1) = {0, 2}
  /\ CategoriesOfLine(1) = {}
  /\ sections["experience"] = [start |-> 2, end |-> 3, content |-> <<text[3]>>]

(***************************************************************************)
(* Sections of projects.                                                   *)
(***************************************************************************)
ProjectLine ==
  [header |-> <<"P","R","O","J","E","C","T","S">>,
   yearLast |-> <<"S","h","o","p"," ","A","p","p"," ","2","0","2","0">>,
   yearFirst |-> <<"2","0","2","1"," ","B","l","o","g">>,
   dashed |-> <<"W","e","b","-","S","h","o","p"," ","2","0","1","9">>,
   named |-> <<"P","r","o","j","e","c","t"," ","A","l","p","h","a"," ","2","0","2","2">>,
   bullet |-> <<"-"," ","B","u","i","l","t"," ","t","h","e"," ","A","P","I">>,
   secondBullet |-> <<"-"," ","A","d","d","e","d"," ","t","e","s","t","s">>,
   continuation |-> <<"D","e","p","l","o","y","e","d"," ","o","n"," ","A","W","S">>]

ProjectTexts ==
  {<<ProjectLine.header>> \o body :
     body \in SeqsUpTo({ProjectLine.yearLast, ProjectLine.yearFirst, ProjectLine.dashed,
                        ProjectLine.named, ProjectLine.bullet, ProjectLine.secondBullet,
                        ProjectLine.continuation}, MaxProjectLines)}

InitProjects == \E t \in ProjectTexts : Start(t)

SpecProjects == InitProjects /\ [][NextNoExperience]_vars

ProjectsDone == pc \in {"result", "done"}

\* the lines of the section of projects, and the indices (from 1) of those
\* after the header line that hold a 4-digit year
ProjectSection ==
  IF "projects" \in DOMAIN sections THEN sections["projects"].content ELSE <<>>

YearLines == {n \in 2..Len(ProjectSection) : HasFourDigits(Trim(ProjectSection[n]))}

\* the year of a year-bearing line and what is left of the line without it
YearOf(line) == SubSeq(Trim(line), FirstFourDigits(Trim(line)), FirstFourDigits(Trim(line)) + 3)

Remainder(line) == Trim(RemoveFourDigits(Trim(line)))

\* the line is skipped by the loop: it is empty or starts like the header
SkippedLine(line) ==
  \/ Trim(line) = <<>>
  \/ \E w \in {<<"P","R","O","J","E","T">>, <<"P","R","O","J","E","C","T">>} :
       MatchAtCI(Trim(line), 1, w)

\* the year-bearing lines that the loop reads
ProjectStarts == {n \in YearLines : ~SkippedLine(ProjectSection[n])}

\* the lines after the year-bearing line n up to the next one or the end
LinesOfProject(n) ==
  {j \in (n + 1)..Len(ProjectSection) : \A x \in (n + 1)..j : x \notin YearLines}

\* the text of the lines of the set S, bullets stripped, in order
RECURSIVE ProjectDescription(_)
ProjectDescription(S) ==
  IF S = {} THEN <<>>
  ELSE StripBullet(Trim(ProjectSection[Min(S)])) \o <<" ">> \o ProjectDescription(S \ {Min(S)})

\* C23: every bullet line and continuation line between a project's
\* year-bearing line and the next one (or the end of the section) is in the
\* description of that project, in order.
C23_DescriptionAccumulates ==
  ProjectsDone =>
    \A n \in ProjectStarts :
      Remainder(ProjectSection[n]) # <<>> =>
        \E p \in 1..Len(projects) :
          /\ projects[p].date = YearOf(ProjectSection[n])
          /\ projects[p].description = Trim(ProjectDescription(LinesOfProject(n)))

\* what the code does with two bullet lines after the year-bearing line: the
\* description holds the first one only
C23_FirstBulletOnly ==
  ProjectsDone =>
    \A n \in ProjectStarts :
      (/\ Remainder(ProjectSection[n]) # <<>>
       /\ Cardinality(LinesOfProject(n)) = 2
       /\ \A j \in LinesOfProject(n) : BulletStart(ProjectSection[j])) =>
        \E p \in 1..Len(projects) :
          /\ projects[p].date = YearOf(ProjectSection[n])
          /\ projects[p].description = StripBullet(ProjectSection[n + 1])

\* the projects named by the year-bearing lines of the set S with something
\* left beside the year, in order: [name, date]
RECURSIVE ProjectsOfYearLines(_)
ProjectsOfYearLines(S) ==
  IF S = {} THEN <<>>
  ELSE (IF Remainder(ProjectSection[Min(S)]) # <<>>
        THEN <<[name |-> Remainder(ProjectSection[Min(S)]),
                date |-> YearOf(ProjectSection[Min(S)])]>>
        ELSE <<>>)
       \o ProjectsOfYearLines(S \ {Min(S)})

\* C24: the projects emitted are, in order, one for each line after the
\* header that holds a 4-digit year beside other text, with the year as date
\* and the rest of the line as name.
C24_OneProjectPerYearLine ==
  ProjectsDone =>
    [p \in 1..Len(projects) |-> [name |-> projects[p].name, date |-> projects[p].date]]
      = ProjectsOfYearLines(YearLines)

\* what the code does: the lines that start like the header are skipped, and
\* the name is the rest of the line without its first dash
C24_ReadLinesOnly ==
  ProjectsDone =>
    /\ Len(projects) = Cardinality(ProjectStarts)
    /\ \A p \in 1..Len(projects) :
         \E n \in ProjectStarts :
           /\ projects[p].date = YearOf(ProjectSection[n])
           /\ projects[p].name = Trim(RemoveFirstDash(RemoveFourDigits(Trim(ProjectSection[n]))))

(***************************************************************************)
(* The summary of the documents with and without each field.               *)
(***************************************************************************)
MinTextLength == 50

LanguageLines == <<<<"L","A","N","G","U","A","G","E","S">>, <<"E","n","g","l","i","s","h",","," ","F","r","e","n","c","h">>>>

SummaryTexts ==
  Documents \cup PlainTexts \cup {t \o LanguageLines : t \in PlainTexts}

InitSummary == \E t \in SummaryTexts : Start(t)

NextSummary == NextPipeline \/ GenerateAdvancedSummary

SpecSummary == InitSummary /\ [][NextSummary]_vars

\* validateExtractedText accepts every text of 50 characters or more
SufficientText == Len(Join(text)) >= MinTextLength

\* C25: the summary does not begin with a period and has no empty sentence.
C25_NoEmptyClause ==
  (pc = "summary" /\ SufficientText) =>
    /\ aiSummary[1] # "."
    /\ ~Contains(aiSummary, <<"."," ",".">>)
    /\ ~Contains(aiSummary, <<".",".">>)

\* what the code does: the text is well formed when both the heading and
\* the list of details have a clause
C25_BothNonEmpty ==
  (/\ pc = "summary"
   /\ \/ result.personal_info.full_name # NameNotFound
      \/ result.personal_info.position # <<>>
      \/ result.seniority_level # SeniorityLevel.entry
      \/ result.industry # <<>>
   /\ Len(result.experience) + Len(result.education) + Len(result.skills)
        + Len(result.languages) > 0) =>
    /\ aiSummary[1] # "."
    /\ ~Contains(aiSummary, <<"."," ",".">>)
    /\ ~Contains(aiSummary, <<".",".">>)

\* the labels from the lowest to the highest
SeniorityOrder ==
  <<SeniorityLevel.entry, SeniorityLevel.junior, SeniorityLevel.mid,
    SeniorityLevel.midSenior, SeniorityLevel.senior, SeniorityLevel.lead>>

SeniorityRank(label) == CHOOSE k \in 1..Len(SeniorityOrder) : SeniorityOrder[k] = label

\* C26: with the education and the positions of the result, fewer years give
\* a label that is not higher and more years a label that is not lower.
C26_SeniorityMonotone ==
  pc = "done" =>
    /\ \A y \in 0..result.total_experience_years :
         SeniorityRank(estimateSeniority(y, experiences, education))
           <= SeniorityRank(result.seniority_level)
    /\ \A y \in result.total_experience_years..(MaxYears + 1) :
         SeniorityRank(result.seniority_level)
           <= SeniorityRank(estimateSeniority(y, experiences, education))

C26_Witness ==
  /\ pc = "done"
  /\ HasLead
  /\ ~HasAdvanced
  /\ result.total_experience_years = 7
  /\ result.seniority_level = SeniorityLevel.senior
  /\ estimateSeniority(1, experiences, education) = SeniorityLevel.junior
  /\ estimateSeniority(4, experiences, education) = SeniorityLevel.midSenior
  /\ estimateSeniority(10, experiences, education) = SeniorityLevel.lead

(***************************************************************************)
(* processCV and the controllers.  A process is a request or a processCV   *)
(* run in flight; each step runs up to the next await.  A row of cvs is    *)
(* [userId, status, isDefault, processingError, llmProvider,               *)
(* googleDriveFileId]; ids are given in the order of creation.             *)
(***************************************************************************)
Users == {"u1", "u2"}

\* what every action of processCV and of the controllers leaves alone
textVars == <<pc, now, ctxVars, expVars, outVars, listVars, callVars, order, aiSummary>>

\* the process p is at the position at
At(p, at) == p \in DOMAIN procs /\ procs[p].ppc = at

\* the locals of p after a step
Goto(p, at) == [procs EXCEPT ![p].ppc = at]

\* cv.update(values) of the instance held by p: no row, no change
UpdateRow(id, row) == IF id \in DOMAIN cvs THEN [cvs EXCEPT ![id] = row] ELSE cvs

\* uploadCV up to its response: CV.create, the settings, and the call of
\* processCV, which runs up to its first await
UploadCV(u) ==
  /\ Len(extractedData) < MaxUploads
  /\ \E enabled \in BOOLEAN, config \in BOOLEAN :
       LET id == Len(extractedData) + 1
           p == Len(procs) + 1
       IN /\ cvs' = [k \in DOMAIN cvs \cup {id} |->
                       IF k = id
                       THEN [userId |-> u, status |-> "PENDING", isDefault |-> FALSE,
                             processingError |-> FALSE, llmProvider |-> "none",
                             googleDriveFileId |-> FALSE]
                       ELSE cvs[k]]
          /\ extractedData' = Append(extractedData, 0)
          /\ files' = files \cup {p}
          /\ procs' = Append(procs,
                             [kind |-> "upload", cv |-> id, user |-> u, ppc |-> "begin",
                              llmEnabled |-> enabled,
                              llmConfig |-> enabled /\ config,
                              provider |-> "basic", success |-> "none"])
  /\ UNCHANGED textVars

\* processCV: await cv.update({status: PROCESSING, ...})
ProcessBegin(p) ==
  /\ At(p, "begin")
  /\ cvs' = UpdateRow(procs[p].cv, [cvs[procs[p].cv] EXCEPT !.status = "PROCESSING"])
  /\ procs' = Goto(p, "text")
  /\ UNCHANGED <<textVars, extractedData, files>>

\* processCV from the checksum to the validation of the text: the upload to
\* Google Drive when it is available, then the text is extracted and found
\* sufficient, or something throws
ProcessExtractText(p) ==
  /\ At(p, "text")
  /\ \E drive \in BOOLEAN, ok \in BOOLEAN :
       /\ cvs' = UpdateRow(procs[p].cv,
                           [cvs[procs[p].cv] EXCEPT !.googleDriveFileId = @ \/ drive])
       /\ procs' = Goto(p, IF ok THEN "extraction" ELSE "catch")
  /\ UNCHANGED <<textVars, extractedData, files>>

\* processCV: the LLM extraction, its fallback in the inner catch, or the
\* rule-based extraction when no LLM is used
ProcessExtraction(p) ==
  /\ At(p, "extraction")
  /\ IF procs[p].llmEnabled /\ procs[p].llmConfig
     THEN \E outcome \in {"result", "error", "throws"} :
            procs' = [procs EXCEPT ![p].ppc = "summary",
                                   ![p].provider = IF outcome = "result" THEN "llm"
                                                   ELSE "advanced"]
     ELSE procs' = Goto(p, "summary")
  /\ UNCHANGED <<textVars, cvs, extractedData, files>>

\* processCV: aiSummary, from llmService.generateSummary or from
\* generateAdvancedSummary
ProcessSummary(p) ==
  /\ At(p, "summary")
  /\ IF procs[p].llmEnabled /\ procs[p].llmConfig
     THEN \E ok \in BOOLEAN : procs' = Goto(p, IF ok THEN "store" ELSE "catch")
     ELSE procs' = Goto(p, "store")
  /\ UNCHANGED <<textVars, cvs, extractedData, files>>

\* processCV: await CVExtractedData.create(dataToStore)
ProcessStore(p) ==
  /\ At(p, "store")
  /\ extractedData' = [extractedData EXCEPT ![procs[p].cv] = @ + 1]
  /\ procs' = Goto(p, "complete")
  /\ UNCHANGED <<textVars, cvs, files>>

\* processCV: await cv.update({status: COMPLETED, llmProvider: provider, ...})
ProcessComplete(p) ==
  /\ At(p, "complete")
  /\ cvs' = UpdateRow(procs[p].cv,
                      [cvs[procs[p].cv] EXCEPT !.status = "COMPLETED",
                                               !.llmProvider = procs[p].provider])
  /\ procs' = Goto(p, "cleanup")
  /\ UNCHANGED <<textVars, extractedData, files>>

\* processCV: await cleanupUploadedFile(filePath); return {success: true, ...}
ProcessCleanup(p) ==
  /\ At(p, "cleanup")
  /\ files' = files \ {p}
  /\ procs' = [procs EXCEPT ![p].ppc = "returned", ![p].success = TRUE]
  /\ UNCHANGED <<textVars, cvs, extractedData>>

\* the catch block went on without the update of the status
ProcessCatchNoStatus(p) ==
  /\ At(p, "catch")
  /\ procs' = Goto(p, "cleanupFailed")
  /\ UNCHANGED <<textVars, cvs, extractedData, files>>

\* processCV, catch: await cv.update({status: FAILED, processingError: ...})
ProcessCatch(p) ==
  /\ At(p, "catch")
  /\ cvs' = UpdateRow(procs[p].cv,
                      [cvs[procs[p].cv] EXCEPT !.status = "FAILED",
                                               !.processingError = TRUE])
  /\ procs' = Goto(p, "cleanupFailed")
  /\ UNCHANGED <<textVars, extractedData, files>>

\* processCV, catch: await cleanupUploadedFile(filePath); return {success: false, ...}
ProcessCleanupFailed(p) ==
  /\ At(p, "cleanupFailed")
  /\ files' = files \ {p}
  /\ procs' = [procs EXCEPT ![p].ppc = "returned", ![p].success = FALSE]
  /\ UNCHANGED <<textVars, cvs, extractedData>>

\* the steps of processCV
ProcessCV(p) ==
  \/ ProcessBegin(p)
  \/ ProcessExtractText(p)
  \/ ProcessExtraction(p)
  \/ ProcessSummary(p)
  \/ ProcessStore(p)
  \/ ProcessComplete(p)
  \/ ProcessCleanup(p)
  \/ ProcessCatch(p)
  \/ ProcessCleanupFailed(p)

\* uploadCV, then: CV.update({isDefault: false}, {where: {userId, isDefault:
\* true, id: {[Op.ne]: cv.id}}}) after a successful processCV
UnsetPreviousDefault(p) ==
  /\ At(p, "returned")
  /\ procs[p].kind = "upload"
  /\ procs[p].success = TRUE
  /\ cvs' = [k \in DOMAIN cvs |->
               IF cvs[k].userId = procs[p].user /\ cvs[k].isDefault /\ k # procs[p].cv
               THEN [cvs[k] EXCEPT !.isDefault = FALSE] ELSE cvs[k]]
  /\ procs' = Goto(p, "setDefault")
  /\ UNCHANGED <<textVars, extractedData, files>>

\* uploadCV, then: await cv.update({isDefault: true})
SetNewDefault(p) ==
  /\ At(p, "setDefault")
  /\ procs[p].kind = "upload"
  /\ cvs' = UpdateRow(procs[p].cv, [cvs[procs[p].cv] EXCEPT !.isDefault = TRUE])
  /\ procs' = Goto(p, "done")
  /\ UNCHANGED <<textVars, extractedData, files>>

(***************************************************************************)
(* Uploads and their processCV runs.                                       *)
(***************************************************************************)
InitProcess == Idle(ThisYear)

NextProcess ==
  \/ \E u \in Users : UploadCV(u)
  \/ \E p \in DOMAIN procs : ProcessCV(p)
  \/ \E p \in DOMAIN procs : UnsetPreviousDefault(p)
  \/ \E p \in DOMAIN procs : SetNewDefault(p)

SpecProcess == InitProcess /\ [][NextProcess]_vars

\* C27: a run whose LLM extraction failed and that fell back to the
\* rule-based engine (provider 'advanced') returns with its CV COMPLETED.
C27_FallbackCompletes ==
  \A p \in DOMAIN procs :
    (procs[p].ppc = "returned" /\ procs[p].provider = "advanced") =>
      /\ procs[p].success = TRUE
      /\ cvs[procs[p].cv].status = "COMPLETED"
      /\ cvs[procs[p].cv].llmProvider = "advanced"

\* what the code does: after the fallback the CV is COMPLETED with provider
\* 'advanced' when the run succeeded, which needs the LLM summary
C27_FallbackRecorded ==
  \A p \in DOMAIN procs :
    (procs[p].ppc = "returned" /\ procs[p].provider = "advanced"
     /\ procs[p].success = TRUE) =>
      /\ cvs[procs[p].cv].status = "COMPLETED"
      /\ cvs[procs[p].cv].llmProvider = "advanced"

(***************************************************************************)
(* The processCV runs of the uploads, every awaited promise settling.      *)
(***************************************************************************)
NextRuns ==
  \/ \E u \in Users : Len(extractedData) < MaxRuns /\ UploadCV(u)
  \/ \E p \in DOMAIN procs : ProcessCV(p)

SpecRuns ==
  InitProcess /\ [][NextRuns]_vars /\ \A p \in 1..(MaxRuns + 1) : WF_vars(ProcessCV(p))

\* processCV has returned to the process p
Returned(p) == p \in DOMAIN procs /\ procs[p].ppc \in {"returned", "setDefault", "done"}

FindsOwnCV(u, id) ==
  /\ id \in DOMAIN cvs
  /\ cvs[id].userId = u
  /\ cvs[id].status \in {"COMPLETED", "ARCHIVED"}

\* the number of requests of the kinds ks received so far
Requests(ks) == Cardinality({p \in DOMAIN procs : procs[p].kind \in ks})

\* setDefaultCV up to its first update: the CV is found
SetDefaultCV(u, id) ==
  /\ Requests({"setDefault", "delete"}) < MaxRequests
  /\ FindsOwnCV(u, id)
  /\ procs' = Append(procs, [kind |-> "setDefault", cv |-> id, user |-> u,
                             ppc |-> "unsetAll"])
  /\ UNCHANGED <<textVars, cvs, extractedData, files>>

\* setDefaultCV: await CV.update({isDefault: false}, {where: {userId}})
SetDefaultUnsetAll(p) ==
  /\ At(p, "unsetAll")
  /\ cvs' = [k \in DOMAIN cvs |->
               IF cvs[k].userId = procs[p].user
               THEN [cvs[k] EXCEPT !.isDefault = FALSE] ELSE cvs[k]]
  /\ procs' = Goto(p, "setOne")
  /\ UNCHANGED <<textVars, extractedData, files>>

\* setDefaultCV: await cv.update({isDefault: true})
SetDefaultSetOne(p) ==
  /\ At(p, "setOne")
  /\ cvs' = UpdateRow(procs[p].cv, [cvs[procs[p].cv] EXCEPT !.isDefault = TRUE])
  /\ procs' = Goto(p, "done")
  /\ UNCHANGED <<textVars, extractedData, files>>

\* deleteCV up to the test of cv.isDefault: the CV is found
DeleteCV(u, id) ==
  /\ Requests({"setDefault", "delete"}) < MaxRequests
  /\ FindsOwnCV(u, id)
  /\ procs' = Append(procs, [kind |-> "delete", cv |-> id, user |-> u,
                             ppc |-> IF cvs[id].isDefault THEN "findNext" ELSE "destroyData"])
  /\ UNCHANGED <<textVars, cvs, extractedData, files>>

\* deleteCV: nextCV = await CV.findOne({where: {userId, id: {[Op.ne]: cvId},
\* status: [...]}, order: [['createdAt', 'DESC']]}); await
\* nextCV.update({isDefault: true}) when there is one
DeleteSetNext(p) ==
  /\ At(p, "findNext")
  /\ LET others == {k \in DOMAIN cvs : k # procs[p].cv /\ FindsOwnCV(procs[p].user, k)}
     IN cvs' = IF others = {} THEN cvs
               ELSE [cvs EXCEPT ![Max(others)].isDefault = TRUE]
  /\ procs' = Goto(p, "destroyData")
  /\ UNCHANGED <<textVars, extractedData, files>>

\* deleteCV: the extracted data of the CV is found and destroyed
DeleteExtractedData(p) ==
  /\ At(p, "destroyData")
  /\ extractedData' = [extractedData EXCEPT ![procs[p].cv] = IF @ > 0 THEN @ - 1 ELSE 0]
  /\ procs' = Goto(p, "destroy")
  /\ UNCHANGED <<textVars, cvs, files>>

\* deleteCV: await cv.destroy()
DeleteDestroy(p) ==
  /\ At(p, "destroy")
  /\ cvs' = [k \in DOMAIN cvs \ {procs[p].cv} |-> cvs[k]]
  /\ procs' = Goto(p, "done")
  /\ UNCHANGED <<textVars, extractedData, files>>

(***************************************************************************)
(* The CVs of one user: uploads, setDefaultCV and deleteCV requests.       *)
(***************************************************************************)
NextDefaults ==
  \/ UploadCV("u1")
  \/ \E p \in DOMAIN procs : ProcessCV(p)
  \/ \E p \in DOMAIN procs : UnsetPreviousDefault(p)
  \/ \E p \in DOMAIN procs : SetNewDefault(p)
  \/ \E id \in 1..MaxUploads : SetDefaultCV("u1", id)
  \/ \E p \in DOMAIN procs : SetDefaultUnsetAll(p)
  \/ \E p \in DOMAIN procs : SetDefaultSetOne(p)
  \/ \E id \in 1..MaxUploads : DeleteCV("u1", id)
  \/ \E p \in DOMAIN procs : DeleteSetNext(p)
  \/ \E p \in DOMAIN procs : DeleteExtractedData(p)
  \/ \E p \in DOMAIN procs : DeleteDestroy(p)

SpecDefaults == InitProcess /\ [][NextDefaults]_vars

\* the process p has no step left
Finished(p) ==
  \/ procs[p].ppc = "done"
  \/ procs[p].ppc = "returned" /\ procs[p].success = FALSE

\* the CVs of the user u that are marked as default
DefaultsOf(u) == {id \in DOMAIN cvs : cvs[id].userId = u /\ cvs[id].isDefault}

\* C29: when no upload and no request is in flight, a user has at most one
\* default CV.
C29_OneDefault ==
  (\A p \in DOMAIN procs : Finished(p)) =>
    \A u \in Users : Cardinality(DefaultsOf(u)) <= 1

(***************************************************************************)
(* The reprocess endpoint and CVProcessorService.reprocessCV.              *)
(***************************************************************************)
\* reprocessCV of the controller up to the call of the service: the CV is
\* found and its status is FAILED; the settings are read
ReprocessCV(id) ==
  /\ Requests({"reprocess"}) < MaxRequests
  /\ id \in DOMAIN cvs
  /\ cvs[id].status = "FAILED"
  /\ \E enabled \in BOOLEAN, config \in BOOLEAN :
       procs' = Append(procs,
                       [kind |-> "reprocess", cv |-> id, user |-> cvs[id].userId,
                        ppc |-> "find", llmEnabled |-> enabled,
                        llmConfig |-> enabled /\ config,
                        provider |-> "basic", success |-> "none"])
  /\ UNCHANGED <<textVars, cvs, extractedData, files>>

\* the service: CV.findByPk(cvId), the two throws, then the download of the
\* file and fs.writeFileSync(tempPath, ...)
ReprocessDownload(p) ==
  /\ At(p, "find")
  /\ IF procs[p].cv \in DOMAIN cvs /\ cvs[procs[p].cv].googleDriveFileId
     THEN \E ok \in BOOLEAN :
            /\ procs' = Goto(p, IF ok THEN "pending" ELSE "rejected")
            /\ files' = IF ok THEN files \cup {p} ELSE files
     ELSE /\ procs' = Goto(p, "rejected")
          /\ files' = files
  /\ UNCHANGED <<textVars, cvs, extractedData>>

\* the service: await cv.update({status: PENDING, processingError: undefined});
\* whether the undefined value clears the column is left open
ReprocessPending(p) ==
  /\ At(p, "pending")
  /\ \E cleared \in BOOLEAN :
       cvs' = UpdateRow(procs[p].cv,
                        [cvs[procs[p].cv] EXCEPT !.status = "PENDING",
                                                 !.processingError = @ /\ ~cleared])
  /\ procs' = Goto(p, "destroyData")
  /\ UNCHANGED <<textVars, extractedData, files>>

\* the service: await CVExtractedData.destroy({where: {cvId}}); then
\* processCV runs up to its first await
ReprocessDestroyData(p) ==
  /\ At(p, "destroyData")
  /\ procs[p].kind = "reprocess"
  /\ extractedData' = [extractedData EXCEPT ![procs[p].cv] = 0]
  /\ procs' = Goto(p, "begin")
  /\ UNCHANGED <<textVars, cvs, files>>

NextReprocess ==
  \/ Len(extractedData) < MaxRuns /\ UploadCV("u1")
  \/ \E p \in DOMAIN procs : ProcessCV(p)
  \/ \E id \in 1..MaxUploads : ReprocessCV(id)
  \/ \E p \in DOMAIN procs : ReprocessDownload(p)
  \/ \E p \in DOMAIN procs : ReprocessPending(p)
  \/ \E p \in DOMAIN procs : ReprocessDestroyData(p)

SpecReprocess == InitProcess /\ [][NextReprocess]_vars

\* the run p has set its CV to PROCESSING and not yet written COMPLETED or
\* FAILED
Active(p) ==
  procs[p].ppc \in {"text", "extraction", "summary", "store", "complete", "catch"}

\* C30: a CV has at most one processCV run between PROCESSING and its
\* terminal status.
C30_OneActiveRun ==
  \A id \in DOMAIN cvs :
    Cardinality({p \in DOMAIN procs : procs[p].cv = id /\ Active(p)}) <= 1

\* what the code does: a request is admitted only while the status is FAILED
C30_AdmittedWhenFailed ==
  [][\A p \in DOMAIN procs' :
       (p \notin DOMAIN procs /\ procs'[p].kind = "reprocess") =>
         cvs[procs'[p].cv].status = "FAILED"]_vars

====
